---------------------------- MODULE Spec2Model ----------------------------
(***************************************************************************)
(* State-machine models of the allocators of WiwilZ/MemoryManager:         *)
(*   - the cursor-based boundary-tag MemoryPool   (src/unnamed/part_002)   *)
(*   - the fixed-size Allocator<T>, both variants (src/Allocator.h)        *)
(*   - the explicit-free-list MemoryPool          (src/MemoryPool.h)       *)
(* Memory is modelled byte by byte (little endian, 64-bit words), so that  *)
(* overlapping header, footer and payload bytes behave as in the build.    *)
(***************************************************************************)
EXTENDS Integers, Sequences, FiniteSets, Bags, TLC

NULL == 0

\* sizeof(size_t) == sizeof(void*) on the modelled 64-bit platform
WordSize == 8

\* A word that cannot be used: indeterminate bytes, or a value outside the
\* modelled address/size range.
BadWord == 0 - 1

Max(a, b) == IF a >= b THEN a ELSE b
Min(a, b) == IF a <= b THEN a ELSE b

RECURSIVE Pow2(_)
Pow2(n) == IF n = 0 THEN 1 ELSE 2 * Pow2(n - 1)

\* std::bit_width
RECURSIVE bit_width(_)
bit_width(x) == IF x = 0 THEN 0 ELSE 1 + bit_width(x \div 2)

\* std::bit_ceil
bit_ceil(x) == IF x <= 1 THEN 1 ELSE Pow2(bit_width(x - 1))

(***************************************************************************)
(* Byte-addressed memory: a function from the addresses written so far to  *)
(* bytes.  An address outside the domain holds an indeterminate byte.      *)
(***************************************************************************)
ByteOf(v, i) ==
    CASE i = 0 -> v % 256
      [] i = 1 -> (v \div 256) % 256
      [] i = 2 -> (v \div 65536) % 256
      [] i = 3 -> (v \div 16777216) % 256
      [] OTHER -> 0

WordBytes(a) == a .. (a + WordSize - 1)

ReadWord(m, a) ==
    LET D == DOMAIN m IN
    IF \E x \in WordBytes(a) : x \notin D THEN BadWord
    ELSE IF m[a + 3] >= 128 \/ \E i \in 4 .. 7 : m[a + i] # 0 THEN BadWord
    ELSE m[a] + 256 * m[a + 1] + 65536 * m[a + 2] + 16777216 * m[a + 3]

\* f @@ g takes f where both are defined
WriteWord(m, a, v) == [x \in WordBytes(a) |-> ByteOf(v, x - a)] @@ m

\* The bytes the user stores in a payload: byte k of B.
Pat(k) == 1 + (k % 250)

FillBytes(m, p, n) == [x \in p .. (p + n - 1) |-> Pat(x - p)] @@ m

HoldsPat(m, p, n) ==
    LET D == DOMAIN m IN
    \A k \in 0 .. (n - 1) : (p + k) \in D /\ m[p + k] = Pat(k)

\* memcpy(dst, src, n).  Overlapping regions are undefined behaviour for
\* memcpy; dir chooses between the two byte orders a build produces.
CopySrc(dst, src, n, dir, i) ==
    IF dst = src \/ n = 0 THEN src + i
    ELSE IF dst < src
    THEN LET d == src - dst IN
         IF dir = "up" \/ d >= n THEN src + i
         ELSE src + i + d * ((n - 1 - i) \div d)
    ELSE LET d == dst - src IN
         IF dir = "down" \/ d >= n THEN src + i
         ELSE src + (i % d)

MemCopy(m, dst, src, n, dir) ==
    LET M     == DOMAIN m
        D     == dst .. (dst + n - 1)
        from(x) == CopySrc(dst, src, n, dir, x - dst)
        keep  == M \ D
        got   == {x \in D : from(x) \in M}
    IN  [x \in got |-> m[from(x)]] @@ [x \in keep |-> m[x]]

(***************************************************************************)
(* The byte source: operator new[] / delete.  The i-th chunk ever acquired *)
(* lies at i * ChunkStride; heap records each chunk's size and how often   *)
(* it has been released.                                                   *)
(***************************************************************************)
ChunkStride == 2 * 4096

NewBase(heap) == (Len(heap) + 1) * ChunkStride

InHeap(heap, a, n) ==
    \E i \in 1 .. Len(heap) :
        /\ heap[i].released = 0
        /\ heap[i].base <= a
        /\ a + n <= heap[i].base + heap[i].size


(***************************************************************************)
(*            src/unnamed/part_002 : boundary-tag MemoryPool               *)
(*                                                                         *)
(* A pool state s is a record                                              *)
(*   mem          the bytes of the process                                 *)
(*   heap         the chunks obtained from operator new[]                  *)
(*   chunk_head_  MemoryPool::chunk_head_                                  *)
(*   curr_block_  MemoryPool::curr_block_                                  *)
(*   fault        "" while the execution is defined; "ub" after an access  *)
(*                the language leaves undefined (a wild or indeterminate   *)
(*                pointer or meta word is used); "hang" when a loop does   *)
(*                not terminate                                            *)
(***************************************************************************)
default_size == 4096

chunk_header_size == 8
chunk_footer_size == 8
chunk_tag_size == chunk_header_size + chunk_footer_size

block_header_size == 16
block_footer_size == 8
block_tag_size == block_header_size + block_footer_size

Crash(s) == [s EXCEPT !.fault = IF @ = "" THEN "ub" ELSE @]
Hang(s) == [s EXCEPT !.fault = IF @ = "" THEN "hang" ELSE @]

\* a word load through a pointer
Rd(s, a) ==
    IF s.fault # "" \/ a < 0 \/ ~InHeap(s.heap, a, WordSize) THEN BadWord
    ELSE ReadWord(s.mem, a)

\* a word store through a pointer
Wr(s, a, v) ==
    IF s.fault # "" \/ a < 0 \/ v < 0 \/ ~InHeap(s.heap, a, WordSize)
    THEN Crash(s)
    ELSE [s EXCEPT !.mem = WriteWord(@, a, v)]

\* the flag bits of a meta word, in place
LastBit(m) == ((m \div 4) % 2) * 4
PrevFreeBit(m) == ((m \div 2) % 2) * 2
FreeBit(m) == m % 2

block_size(s, b) == Rd(s, b) \div 8
is_last(s, b) == LastBit(Rd(s, b)) # 0
is_prev_free(s, b) == PrevFreeBit(Rd(s, b)) # 0
is_free(s, b) == FreeBit(Rd(s, b)) # 0
payload(b) == b + block_header_size
next_block(s, b) == b + block_size(s, b)
footer(s, b) == next_block(s, b) - block_footer_size
prev_block(s, b) == Rd(s, b - block_footer_size)
first_block(chunk) == chunk + chunk_header_size

\* new(b) BlockHeader{ m }: the meta word and mask{ payload }
NewBlockHeader(s, b, m) == Wr(Wr(s, b, m), b + WordSize, payload(b))

set_prev_free(s, b) ==
    LET m == Rd(s, b) IN
    IF m < 0 THEN Crash(s) ELSE Wr(s, b, m - PrevFreeBit(m) + 2)

set_free(s, b) ==
    LET m == Rd(s, b) IN
    IF m < 0 THEN Crash(s) ELSE Wr(s, b, m - FreeBit(m) + 1)

set_unfree(s, b) ==
    LET m == Rd(s, b) IN
    IF m < 0 THEN Crash(s) ELSE Wr(s, b, m - FreeBit(m))

merge_next_block(s, b) ==
    LET m  == Rd(s, b)
        nb == b + (m \div 8)
        nm == Rd(s, nb)
    IN  IF m < 0 THEN Crash(s)
        ELSE IF LastBit(m) # 0 THEN Wr(s, b, (m \div 8) * 8 + LastBit(m) + PrevFreeBit(m))
        ELSE IF nm < 0 THEN Crash(s)
        ELSE IF FreeBit(nm) = 1
             THEN Wr(s, b, ((m \div 8) + (nm \div 8)) * 8 + LastBit(nm) + PrevFreeBit(m))
             ELSE Wr(s, b, (m \div 8) * 8 + PrevFreeBit(m))

\* returns the pool state and the header the merged block starts at
merge_prev_block(s, b) ==
    LET m     == Rd(s, b)
        block == prev_block(s, b)
        pm    == Rd(s, block)
    IN  IF m < 0 THEN [s |-> Crash(s), res |-> b]
        ELSE IF PrevFreeBit(m) = 0 THEN [s |-> s, res |-> b]
        ELSE IF block < 0 \/ pm < 0 THEN [s |-> Crash(s), res |-> b]
        ELSE [s   |-> NewBlockHeader(s, block, ((m \div 8) + (pm \div 8)) * 8 + LastBit(m)),
              res |-> block]


\* Every intermediate pool state below is passed on as an operator argument:
\* each C++ statement sequence is a nest of calls, innermost first.

SetCurr(s, b) == [s EXCEPT !.curr_block_ = b]
SetHead(s, c) == [s EXCEPT !.chunk_head_ = c]

\* b->footer()->header = b
WrFooter(s, b) == Wr(s, footer(s, b), b)

\* operator new[](chunk_size): a fresh chunk of indeterminate bytes
Acquire(s, chunk_size) ==
    [s EXCEPT !.heap = Append(@, [base |-> NewBase(@), size |-> chunk_size,
                                  released |-> 0])]

\* new(q) ChunkFooter{ chunk_head_->next }
WrChunkFooter(s, q) == Wr(s, q, Rd(s, s.chunk_head_))

\* Alloc_from_new_chunk once p = new std::byte[chunk_size] is there:
\* chunk header, chunk footer at q, target block, trailing free block
CarveChunk(s, p, q, alloc_size) ==
    WrFooter(
        SetCurr(
            NewBlockHeader(
                NewBlockHeader(
                    WrChunkFooter(SetHead(Wr(s, p, s.chunk_head_), p), q),
                    first_block(p), alloc_size * 8),
                first_block(p) + alloc_size,
                (q - (first_block(p) + alloc_size)) * 8 + 5),
            first_block(p) + alloc_size),
        first_block(p) + alloc_size)

Alloc_from_new_chunk(s, size) ==
    LET extend_size == chunk_tag_size + block_header_size + size + block_tag_size
        chunk_size  == Max(default_size, Pow2(bit_width(extend_size)))
        p           == NewBase(s.heap)
    IN  [s   |-> CarveChunk(Acquire(s, chunk_size), p,
                            p + chunk_size - chunk_footer_size,
                            block_header_size + size),
         res |-> payload(first_block(p))]

\* the end of a split: footer of the new free block, is_prev_free of its
\* successor
SplitFinish(s, isLast) ==
    IF isLast = 0
    THEN set_prev_free(WrFooter(s, s.curr_block_),
                       next_block(WrFooter(s, s.curr_block_), s.curr_block_))
    ELSE WrFooter(s, s.curr_block_)

\* curr_block_ = new(targetBlock->next_block()) BlockHeader{...}
SplitTail(s, c, freeSize, isLast) ==
    SplitFinish(SetCurr(NewBlockHeader(s, next_block(s, c), freeSize * 8 + isLast + 1),
                        next_block(s, c)),
                isLast)

SplitBlock(s, c, allocSize, freeSize, isLast, prevFree) ==
    SplitTail(NewBlockHeader(s, c, allocSize * 8 + prevFree), c, freeSize, isLast)

Alloc_from_curr_block(s, allocSize) ==
    LET c        == s.curr_block_
        m        == Rd(s, s.curr_block_)
        freeSize == (Rd(s, s.curr_block_) \div 8) - allocSize
    IN  IF m < 0 THEN [s |-> Crash(s), res |-> NULL]
        ELSE IF freeSize < 0 THEN [s |-> s, res |-> NULL]
        ELSE IF freeSize < block_tag_size
        THEN [s |-> set_unfree(s, c), res |-> payload(c)]
        ELSE [s   |-> SplitBlock(s, c, allocSize, freeSize, LastBit(m), PrevFreeBit(m)),
              res |-> payload(c)]

FreeMarkNext(s) ==
    IF Rd(s, s.curr_block_) < 0 THEN Crash(s)
    ELSE IF ~is_last(s, s.curr_block_)
    THEN set_prev_free(s, next_block(s, s.curr_block_))
    ELSE s

Free_curr_block(s) ==
    FreeMarkNext(WrFooter(set_free(s, s.curr_block_), s.curr_block_))

\* an upper bound on the blocks a chunk list can hold: a walk over a free
\* list has not terminated when it has run that often
ScanFuel(s) == 2 + Len(s.heap) * (ChunkStride \div block_header_size)

RECURSIVE AllocScan(_, _, _, _)
RECURSIVE ScanAdvance(_, _, _, _)

\* the cursor as it would move if the chunk footer were not followed: from
\* the last block of any chunk to the first block of chunk_head_
ScanNext_head_only(s) ==
    LET c    == s.curr_block_
        m    == Rd(s, s.curr_block_)
    IN  IF m < 0 THEN BadWord
        ELSE IF LastBit(m) = 0 THEN next_block(s, c)
        ELSE first_block(s.chunk_head_)

\* the block the cursor moves to: the next block, or the first block of the
\* next chunk (of chunk_head_ after the oldest chunk)
ScanNext(s) ==
    LET c    == s.curr_block_
        m    == Rd(s, s.curr_block_)
        link == Rd(s, next_block(s, s.curr_block_))
    IN  IF m < 0 THEN BadWord
        ELSE IF LastBit(m) = 0 THEN next_block(s, c)
        ELSE IF link < 0 THEN BadWord
        ELSE first_block(IF link = NULL THEN s.chunk_head_ ELSE link)

ScanAdvance(s, start, allocSize, seen) ==
    IF ScanNext(s) < 0 THEN [s |-> Crash(s), res |-> NULL]
    ELSE IF ScanNext(s) = start THEN [s |-> SetCurr(s, ScanNext(s)), res |-> NULL]
    ELSE IF ScanNext(s) \in seen THEN [s |-> Hang(s), res |-> NULL]
    ELSE AllocScan(SetCurr(s, ScanNext(s)), start, allocSize, seen \cup {ScanNext(s)})

ScanTry(r, start, allocSize, seen) ==
    IF r.res # NULL \/ r.s.fault # "" THEN r
    ELSE ScanAdvance(r.s, start, allocSize, seen)

\* the do-while loop of allocate; res = NULL when curr_block_ is back at
\* start.  A pass that finds nothing changes no byte, so the loop does not
\* end once the cursor meets a block of seen, the blocks it has left, again
\* before it meets start.
AllocScan(s, start, allocSize, seen) ==
    IF Rd(s, s.curr_block_) < 0 THEN [s |-> Crash(s), res |-> NULL]
    ELSE IF is_free(s, s.curr_block_)
    THEN ScanTry(Alloc_from_curr_block(s, allocSize), start, allocSize, seen)
    ELSE ScanAdvance(s, start, allocSize, seen)

AllocAfterScan(found, size) ==
    IF found.res # NULL \/ found.s.fault # "" THEN found
    ELSE Alloc_from_new_chunk(found.s, size)

\* allocate as it would be without the test of size == 0
allocate_any_size(s, size) ==
    IF s.chunk_head_ # NULL
    THEN AllocAfterScan(AllocScan(s, s.curr_block_, block_header_size + size, {}),
                        size)
    ELSE Alloc_from_new_chunk(s, size)

allocate(s, size) ==
    IF size = 0 THEN [s |-> s, res |-> NULL]
    ELSE IF s.chunk_head_ # NULL
    THEN AllocAfterScan(AllocScan(s, s.curr_block_, block_header_size + size, {}),
                        size)
    ELSE Alloc_from_new_chunk(s, size)

\* memcpy(dst, src, n) on the pool's memory
Memcpy(s, dst, src, n, dir) ==
    IF s.fault # "" \/ n < 0 THEN Crash(s)
    ELSE IF n = 0 THEN s
    ELSE IF ~InHeap(s.heap, dst, n) \/ ~InHeap(s.heap, src, n) THEN Crash(s)
    ELSE [s EXCEPT !.mem = MemCopy(@, dst, src, n, dir)]

\* path names the return statement taken
WithPath(r, path) == [s |-> r.s, res |-> r.res, path |-> path]

CopyTo(r, p, n, dir, path) ==
    [s |-> Memcpy(r.s, r.res, p, n, dir), res |-> r.res, path |-> path]

\* Free_curr_block(); return memcpy(allocate(size), p, payloadSize);
ReallocMove(s, p, payloadSize, size, dir) ==
    CopyTo(allocate(Free_curr_block(s), size), p, payloadSize, dir, "moved")

ReallocFromPrev(r2, p, payloadSize, size, dir) ==
    IF r2.res # NULL \/ r2.s.fault # ""
    THEN CopyTo(r2, p, payloadSize, dir, "merged_prev")
    ELSE ReallocMove(r2.s, p, payloadSize, size, dir)

\* curr_block_ = curr_block_->merge_prev_block(); if (curr_block_ != block) ...
ReallocAfterPrev(mp, block, p, payloadSize, size, dir) ==
    IF mp.res # block
    THEN ReallocFromPrev(Alloc_from_curr_block(SetCurr(mp.s, mp.res),
                                               block_header_size + size),
                         p, payloadSize, size, dir)
    ELSE ReallocMove(SetCurr(mp.s, mp.res), p, payloadSize, size, dir)

ReallocInPlace(r1, block, p, payloadSize, size, dir) ==
    IF r1.res # NULL \/ r1.s.fault # "" THEN WithPath(r1, "in_place")
    ELSE ReallocAfterPrev(merge_prev_block(r1.s, r1.s.curr_block_),
                          block, p, payloadSize, size, dir)

reallocate(s, p, size, dir) ==
    IF p = NULL THEN WithPath(allocate(s, size), "allocate")
    ELSE IF Rd(s, p - block_header_size + WordSize) # p
    THEN [s |-> s, res |-> NULL, path |-> "rejected"]
    ELSE IF Rd(s, p - block_header_size) < 0
    THEN [s |-> Crash(s), res |-> NULL, path |-> "fault"]
    ELSE ReallocInPlace(
             Alloc_from_curr_block(
                 merge_next_block(SetCurr(s, p - block_header_size),
                                  p - block_header_size),
                 block_header_size + size),
             p - block_header_size, p,
             block_size(s, p - block_header_size) - block_header_size,
             size, dir)

DeallocFree(mp) == Free_curr_block(SetCurr(mp.s, mp.res))

\* deallocate as it would be without the comparison of block->mask and p
deallocate_unchecked(s, p) ==
    IF p = NULL THEN s
    ELSE DeallocFree(merge_prev_block(merge_next_block(s, p - block_header_size),
                                      p - block_header_size))

deallocate(s, p) ==
    IF p = NULL THEN s
    ELSE IF Rd(s, p - block_header_size + WordSize) # p THEN s
    ELSE DeallocFree(merge_prev_block(merge_next_block(s, p - block_header_size),
                                      p - block_header_size))

\* ~MemoryPool(): one iteration of  while (chunk_head_) delete exchange(...)
Release(s, a) ==
    IF \E i \in 1 .. Len(s.heap) : s.heap[i].base = a
    THEN LET i == CHOOSE j \in 1 .. Len(s.heap) : s.heap[j].base = a
         IN  [s EXCEPT !.heap[i].released = @ + 1]
    ELSE Crash(s)

DestroyStep(s) ==
    IF Rd(s, s.chunk_head_) < 0 THEN Crash(s)
    ELSE Release(SetHead(s, Rd(s, s.chunk_head_)), s.chunk_head_)

(***************************************************************************)
(*                 src/Allocator.h : Allocator<T>                          *)
(*                                                                         *)
(* The file holds two definitions of the class; def = 1 is the first       *)
(* (lines 11-84), def = 2 the second (lines 96-167).  An allocator state a *)
(* is a record                                                             *)
(*   def               which definition is compiled                        *)
(*   word              the union word (flag/mask or next) of every slot    *)
(*                     and the next field of every chunk, by address       *)
(*   heap              the chunks obtained from operator new               *)
(*   chunk_head_       Allocator::chunk_head_  (chunk_head in def 2)       *)
(*   free_block_head_  Allocator::free_block_head_                         *)
(*   fault             as for the pool above                               *)
(* A slot's address is the address of its payload, which is the pointer    *)
(* allocate returns.                                                       *)
(***************************************************************************)
blocks_per_chunk == 1024

\* the element type: a T of one word
sizeof_T == 8

\* sizeof(FreeBlock), sizeof(Chunk)
sizeof_FreeBlock == sizeof_T + WordSize
sizeof_Chunk == blocks_per_chunk * sizeof_FreeBlock + WordSize

AllocatorStride == 2 * sizeof_Chunk

AllocatorNewBase(heap) == (Len(heap) + 1) * AllocatorStride

\* &chunk->blocks[j], &chunk->blocks[j].flag, &chunk->next
BlockAt(chunk, j) == chunk + j * sizeof_FreeBlock
FlagOf(block) == block + sizeof_T
ChunkNextOf(chunk) == chunk + blocks_per_chunk * sizeof_FreeBlock

Blocks(chunk) == {BlockAt(chunk, j) : j \in 0 .. (blocks_per_chunk - 1)}

\* a load of a slot's union word or of a chunk's next field
AllocatorRd(a, x) ==
    IF a.fault # "" \/ ~InHeap(a.heap, x, WordSize) \/ x \notin DOMAIN a.word
    THEN BadWord
    ELSE a.word[x]

\* Chunk::Chunk(): the union words the constructor stores.  Definition 1
\* links every slot to the next one; definition 2 gives slot 0 its mask and
\* links the others.
ChunkWords(def, chunk) ==
    [x \in {FlagOf(b) : b \in Blocks(chunk)} |->
        IF def = 2 /\ x = FlagOf(chunk) THEN chunk
        ELSE IF x = FlagOf(BlockAt(chunk, blocks_per_chunk - 1)) THEN NULL
        ELSE x - sizeof_T + sizeof_FreeBlock]

AllocatorAcquire(a) ==
    [a EXCEPT !.heap = Append(@, [base |-> AllocatorNewBase(@), size |-> sizeof_Chunk,
                                  released |-> 0])]

\* new Chunk; chunk->next = chunk_head_; chunk_head_ = chunk;
\* free_block_head_ = chunk->blocks + 1
AllocatorNewChunk(a, chunk) ==
    [AllocatorAcquire(a) EXCEPT
        !.word = (ChunkNextOf(chunk) :> a.chunk_head_) @@ ChunkWords(a.def, chunk) @@ @,
        !.chunk_head_ = chunk,
        !.free_block_head_ = BlockAt(chunk, 1)]

\* the branch of allocate that takes the head of the free list
AllocatorPop(a, head, tmp) ==
    IF tmp < 0 THEN [s |-> Crash(a), res |-> NULL]
    ELSE [s   |-> [a EXCEPT !.word[FlagOf(head)] = head, !.free_block_head_ = tmp],
          res |-> head]

Allocator_allocate(a) ==
    IF a.free_block_head_ # NULL
    THEN AllocatorPop(a, a.free_block_head_, AllocatorRd(a, FlagOf(a.free_block_head_)))
    ELSE [s   |-> AllocatorNewChunk(a, AllocatorNewBase(a.heap)),
          res |-> AllocatorNewBase(a.heap)]

\* deallocate as it would be without the comparison of block->flag and p
Allocator_deallocate_unchecked(a, p) ==
    [s |-> [a EXCEPT !.word[FlagOf(p)] = a.free_block_head_, !.free_block_head_ = p],
     accepted |-> TRUE, threw |-> FALSE]

\* deallocate(p); threw: the call left by throw (definition 2 on a mismatch)
Allocator_deallocate(a, p) ==
    IF AllocatorRd(a, FlagOf(p)) # p
    THEN [s |-> a, accepted |-> FALSE, threw |-> (a.def = 2)]
    ELSE [s |-> [a EXCEPT !.word[FlagOf(p)] = a.free_block_head_,
                          !.free_block_head_ = p],
          accepted |-> TRUE, threw |-> FALSE]

\* ~Allocator(): one iteration of  while (chunk_head_) delete[] exchange(...)
Allocator_destroy_step(a) ==
    IF AllocatorRd(a, ChunkNextOf(a.chunk_head_)) < 0 THEN Crash(a)
    ELSE Release([a EXCEPT !.chunk_head_ = AllocatorRd(a, ChunkNextOf(a.chunk_head_))],
                 a.chunk_head_)

\* The allocator after k <= blocks_per_chunk calls of allocate() on a newly
\* constructed one: slots 0 .. k-1 of the first chunk are handed out.
AllocatorAfter(def, k) ==
    LET chunk == AllocatorNewBase(<<>>) IN
    IF k = 0
    THEN [def |-> def, word |-> <<>>, heap |-> <<>>, chunk_head_ |-> NULL,
          free_block_head_ |-> NULL, fault |-> ""]
    ELSE [def   |-> def,
          word  |-> (ChunkNextOf(chunk) :> NULL) @@
                    [x \in {FlagOf(BlockAt(chunk, j)) : j \in 1 .. (k - 1)} |-> x - sizeof_T]
                    @@ ChunkWords(def, chunk),
          heap  |-> <<[base |-> chunk, size |-> sizeof_Chunk, released |-> 0]>>,
          chunk_head_ |-> chunk,
          free_block_head_ |-> IF k = blocks_per_chunk THEN NULL ELSE BlockAt(chunk, k),
          fault |-> ""]

\* the pointers allocate() has returned in AllocatorAfter(def, k)
AllocatorAfterLive(k) == {BlockAt(AllocatorNewBase(<<>>), j) : j \in 0 .. (k - 1)}

\* the free list: the k-th successor of x, and the slots among the first k
\* positions of the list that starts at x
AllocatorNext(a, x) == IF x = NULL THEN NULL ELSE AllocatorRd(a, FlagOf(x))

RECURSIVE Jump(_, _, _)
Jump(a, x, k) ==
    IF x = NULL \/ k = 0 THEN x
    ELSE IF k = 1 THEN AllocatorNext(a, x)
    ELSE Jump(a, Jump(a, x, k \div 2), k - (k \div 2))

RECURSIVE Visited(_, _, _)
Visited(a, x, k) ==
    IF x = NULL \/ k = 0 THEN {}
    ELSE IF k = 1 THEN {x}
    ELSE Visited(a, x, k \div 2) \cup Visited(a, Jump(a, x, k \div 2), k - (k \div 2))

AllSlots(a) == UNION {Blocks(a.heap[i].base) : i \in 1 .. Len(a.heap)}

(***************************************************************************)
(*             src/MemoryPool.h : explicit-free-list MemoryPool            *)
(*                                                                         *)
(* A pool state s is a record with the fields mem, heap, chunk_head_ and   *)
(* fault of the pool above and free_block_head_, the head of the doubly    *)
(* linked list of free blocks.  A block's first word holds the bit-fields  *)
(* is_last (bit 0), is_free (bit 1), is_prev_free (bit 2) and size (the    *)
(* bits above); a free block's prev and next follow it.                    *)
(***************************************************************************)
mp_default_size == Pow2(12)

unfree_block_header_size == 8
free_block_header_size == 24
free_block_footer_size == 8
free_block_tag_size == free_block_header_size + free_block_footer_size
mp_chunk_header_size == 8

mp_size(m) == m \div 8
mp_is_last(m) == m % 2
mp_is_free(m) == (m \div 2) % 2
mp_is_prev_free(m) == (m \div 4) % 2

PrevOf(block) == block + WordSize
NextOf(block) == block + 2 * WordSize

\* a store of a word whose value lies outside the modelled range (a size
\* that wrapped below zero): it reads back as BadWord
WrWild(s, a) ==
    IF s.fault # "" \/ a < 0 \/ ~InHeap(s.heap, a, WordSize) THEN Crash(s)
    ELSE [s EXCEPT !.mem = [x \in WordBytes(a) |-> 255] @@ @]

\* UnfreeBlock::set
mp_set(s, block, isLast, isFree, isPrevFree, size) ==
    IF size < 0 THEN WrWild(s, block)
    ELSE Wr(s, block, size * 8 + isPrevFree * 4 + isFree * 2 + isLast)

\* assignments to one bit-field of the block's first word
mp_set_is_last(s, block, v) ==
    IF Rd(s, block) < 0 THEN Crash(s)
    ELSE Wr(s, block, Rd(s, block) - mp_is_last(Rd(s, block)) + v)

mp_set_is_free(s, block, v) ==
    IF Rd(s, block) < 0 THEN Crash(s)
    ELSE Wr(s, block, Rd(s, block) - 2 * mp_is_free(Rd(s, block)) + 2 * v)

mp_set_is_prev_free(s, block, v) ==
    IF Rd(s, block) < 0 THEN Crash(s)
    ELSE Wr(s, block, Rd(s, block) - 4 * mp_is_prev_free(Rd(s, block)) + 4 * v)

mp_set_size(s, block, size) ==
    IF Rd(s, block) < 0 THEN Crash(s)
    ELSE Wr(s, block, size * 8 + (Rd(s, block) % 8))

Next_neighbor(s, block) ==
    IF Rd(s, block) < 0 THEN BadWord ELSE block + mp_size(Rd(s, block))

Prev_neighbor(s, block) == Rd(s, block - free_block_footer_size)

Footer(s, block) ==
    IF Rd(s, block) < 0 THEN BadWord
    ELSE block + mp_size(Rd(s, block)) - free_block_footer_size

Split_block(block, first_size) == block + first_size

Buffer(block) == block + unfree_block_header_size

MpSetFreeHead(s, block) == [s EXCEPT !.free_block_head_ = block]

\* if (free_block_head_) free_block_head_->prev = block
InsertLinkHead(s, block) ==
    IF s.free_block_head_ # NULL THEN Wr(s, PrevOf(s.free_block_head_), block) ELSE s

Insert_block(s, block) ==
    MpSetFreeHead(
        InsertLinkHead(Wr(Wr(s, PrevOf(block), NULL), NextOf(block), s.free_block_head_),
                       block),
        block)

\* if (block->next) block->next->prev = block->prev
ExtractLinkNext(s, block) ==
    IF Rd(s, NextOf(block)) < 0 \/ Rd(s, PrevOf(block)) < 0 THEN Crash(s)
    ELSE IF Rd(s, NextOf(block)) # NULL
    THEN Wr(s, PrevOf(Rd(s, NextOf(block))), Rd(s, PrevOf(block)))
    ELSE s

\* if (block->prev) block->prev->next = block->next; else free_block_head_ = ...
ExtractLinkPrev(s, block) ==
    IF Rd(s, NextOf(block)) < 0 \/ Rd(s, PrevOf(block)) < 0 THEN Crash(s)
    ELSE IF Rd(s, PrevOf(block)) # NULL
    THEN Wr(s, NextOf(Rd(s, PrevOf(block))), Rd(s, NextOf(block)))
    ELSE MpSetFreeHead(s, Rd(s, NextOf(block)))

Extract_block(s, block) == ExtractLinkNext(ExtractLinkPrev(s, block), block)

\* *Footer(block) = block
MpWrFooter(s, block) ==
    IF Footer(s, block) < 0 THEN Crash(s) ELSE Wr(s, Footer(s, block), block)

\* Next_neighbor(block)->is_prev_free = v
MpMarkNext(s, block, v) ==
    IF Next_neighbor(s, block) < 0 THEN Crash(s)
    ELSE mp_set_is_prev_free(s, Next_neighbor(s, block), v)

\* Alloc, block not last, first branch (lines 162-170)
AllocSplit(s, block, alloc_size, remain_size) ==
    mp_set_size(
        mp_set_is_free(
            Extract_block(
                Insert_block(
                    MpWrFooter(mp_set(s, Split_block(block, alloc_size), 0, 1, 0, remain_size),
                               Split_block(block, alloc_size)),
                    Split_block(block, alloc_size)),
                block),
            block, 0),
        block, alloc_size)

\* Alloc, block not last, second branch (lines 173-176)
AllocWhole(s, block) ==
    MpMarkNext(mp_set_is_free(Extract_block(s, block), block, 0), block, 0)

\* Alloc, block last, first branch (lines 181-189)
AllocSplitLast(s, block, alloc_size, remain_size) ==
    mp_set_size(
        mp_set_is_last(
            mp_set_is_free(
                Extract_block(
                    Insert_block(mp_set(s, Split_block(block, alloc_size), 1, 1, 0, remain_size),
                                 Split_block(block, alloc_size)),
                    block),
                block, 0),
            block, 0),
        block, alloc_size)

\* Alloc, block last, second branch (lines 192-194)
AllocWholeLast(s, block) == mp_set_is_free(Extract_block(s, block), block, 0)

\* block->size is unsigned: the tests  block->size >= 0  hold always, and
\* return nullptr  is never reached
Alloc(s, block, alloc_size, alloc_size_last) ==
    LET m == Rd(s, block) IN
    IF m < 0 THEN [s |-> Crash(s), res |-> NULL]
    ELSE IF mp_is_last(m) = 0
    THEN IF mp_size(m) >= free_block_tag_size
         THEN [s   |-> AllocSplit(s, block, alloc_size, mp_size(m) - alloc_size),
               res |-> Buffer(block)]
         ELSE IF mp_size(m) >= 0
         THEN [s |-> AllocWhole(s, block), res |-> Buffer(block)]
         ELSE [s |-> s, res |-> NULL]
    ELSE IF mp_size(m) >= free_block_header_size
         THEN [s   |-> AllocSplitLast(s, block, alloc_size, mp_size(m) - alloc_size_last),
               res |-> Buffer(block)]
         ELSE IF mp_size(m) >= 0
         THEN [s |-> AllocWholeLast(s, block), res |-> Buffer(block)]
         ELSE [s |-> s, res |-> NULL]

\* the tail of allocate (lines 103-116) once p = new std::byte[chunk_size]
MpCarveChunk(s, p, chunk_size, alloc_size) ==
    Insert_block(
        mp_set(
            mp_set(SetHead(Wr(s, p, s.chunk_head_), p),
                   p + mp_chunk_header_size, 0, 0, 0, alloc_size),
            Split_block(p + mp_chunk_header_size, alloc_size), 1, 1, 0,
            chunk_size - mp_chunk_header_size - alloc_size),
        Split_block(p + mp_chunk_header_size, alloc_size))

MpNewChunk(s, alloc_size) ==
    LET extend_size == mp_chunk_header_size + alloc_size + free_block_header_size
        chunk_size  == Max(mp_default_size, bit_ceil(extend_size))
        p           == NewBase(s.heap)
    IN  [s    |-> MpCarveChunk(Acquire(s, chunk_size), p, chunk_size, alloc_size),
         res  |-> Buffer(p + mp_chunk_header_size),
         grew |-> TRUE]

MpFound(r) == [s |-> r.s, res |-> r.res, grew |-> FALSE]

RECURSIVE MpScan(_, _, _, _, _)
MpScanTry(r, curr, alloc_size, alloc_size_last, fuel) ==
    IF r.res # NULL \/ r.s.fault # "" THEN MpFound(r)
    ELSE MpScan(r.s, Rd(r.s, NextOf(curr)), alloc_size, alloc_size_last, fuel - 1)

\* for (auto curr = free_block_head_; curr; curr = curr->next)
MpScan(s, curr, alloc_size, alloc_size_last, fuel) ==
    IF curr = NULL THEN MpNewChunk(s, alloc_size)
    ELSE IF curr < 0 THEN [s |-> Crash(s), res |-> NULL, grew |-> FALSE]
    ELSE IF fuel = 0 THEN [s |-> Hang(s), res |-> NULL, grew |-> FALSE]
    ELSE MpScanTry(Alloc(s, curr, alloc_size, alloc_size_last), curr,
                   alloc_size, alloc_size_last, fuel)

MemoryPool_allocate(s, size) ==
    IF size = 0 THEN [s |-> s, res |-> NULL, grew |-> FALSE]
    ELSE MpScan(s, s.free_block_head_,
                Max(unfree_block_header_size + size, free_block_tag_size),
                Max(unfree_block_header_size + size, free_block_header_size),
                ScanFuel(s))

\* ~MemoryPool(): the loop
\*   for (auto p = chunk_head_; p; p = *(void**)chunk_head_) operator delete[](p);
\* One iteration releases p and then loads the first word of the chunk
\* chunk_head_ points to, which the loop never changes.  When that chunk is
\* already released the load is undefined: stale = TRUE is the build in
\* which the bytes are still there, stale = FALSE the one in which they are
\* not.
MpReleaseTwice(s, p) ==
    \E i \in 1 .. Len(s.heap) : s.heap[i].base = p /\ s.heap[i].released > 0

MpLoadHead(s, stale) ==
    IF InHeap(s.heap, s.chunk_head_, WordSize) THEN ReadWord(s.mem, s.chunk_head_)
    ELSE IF stale THEN ReadWord(s.mem, s.chunk_head_)
    ELSE BadWord

\* the state after operator delete[](p), and the next value of p
MemoryPool_destroy_step(s, p, stale) ==
    [s    |-> IF MpReleaseTwice(s, p) THEN Crash(Release(s, p)) ELSE Release(s, p),
     p    |-> MpLoadHead(Release(s, p), stale),
     late |-> ~InHeap(Release(s, p).heap, s.chunk_head_, WordSize)]

\* the header deallocate and reallocate derive from p:
\*   static_cast<UnfreeBlock*>(p) - unfree_block_header_size
\* steps back unfree_block_header_size objects of sizeof(UnfreeBlock) bytes
sizeof_UnfreeBlock == unfree_block_header_size

HeaderOf(p) == p - unfree_block_header_size * sizeof_UnfreeBlock

\* block->size += other->size
MpAddSize(s, block, other) ==
    IF Rd(s, block) < 0 \/ Rd(s, other) < 0 THEN Crash(s)
    ELSE mp_set_size(s, block, mp_size(Rd(s, block)) + mp_size(Rd(s, other)))

\* block->is_last = next_neighbor->is_last
MpCopyLast(s, block, other) ==
    IF Rd(s, other) < 0 THEN Crash(s)
    ELSE mp_set_is_last(s, block, mp_is_last(Rd(s, other)))

\* block->is_prev_free = prev_neighbor->is_prev_free
MpCopyPrevFree(s, block, other) ==
    IF Rd(s, other) < 0 THEN Crash(s)
    ELSE mp_set_is_prev_free(s, block, mp_is_prev_free(Rd(s, other)))

\* Merge_next: the state it leaves; it returns block
Merge_next(s, block) ==
    IF Rd(s, block) < 0 THEN Crash(s)
    ELSE IF mp_is_last(Rd(s, block)) = 1 THEN s
    ELSE IF Rd(s, Next_neighbor(s, block)) < 0 THEN Crash(s)
    ELSE IF mp_is_free(Rd(s, Next_neighbor(s, block))) = 0 THEN s
    ELSE MpCopyLast(
             MpAddSize(Extract_block(s, Next_neighbor(s, block)),
                       block, Next_neighbor(s, block)),
             block, Next_neighbor(s, block))

\* Merge_prev: the state it leaves; it returns block, not prev_neighbor
Merge_prev(s, block) ==
    IF Rd(s, block) < 0 THEN Crash(s)
    ELSE IF mp_is_prev_free(Rd(s, block)) = 0 THEN s
    ELSE IF Prev_neighbor(s, block) < 0 THEN Crash(s)
    ELSE MpCopyPrevFree(
             MpAddSize(Extract_block(s, Prev_neighbor(s, block)),
                       block, Prev_neighbor(s, block)),
             block, Prev_neighbor(s, block))

\* Free, lines 202-205
MpFreeTags(s, block) ==
    IF Rd(s, block) < 0 THEN Crash(s)
    ELSE IF mp_is_last(Rd(s, block)) = 1 THEN s
    ELSE MpMarkNext(MpWrFooter(s, block), block, 1)

\* MemoryPool::Free
Free(s, block) == Insert_block(MpFreeTags(mp_set_is_free(s, block, 1), block), block)

MemoryPool_deallocate(s, p) ==
    IF p = NULL THEN s
    ELSE Free(Merge_prev(Merge_next(s, HeaderOf(p)), HeaderOf(p)), HeaderOf(p))

\* return memcpy(allocate(size), p, payload_size)
MpCopyTo(r, p, payload_size, dir) ==
    [s    |-> IF payload_size < 0 THEN Crash(r.s)
              ELSE Memcpy(r.s, r.res, p, payload_size, dir),
     res  |-> r.res,
     grew |-> r.grew]

\* reallocate after the first Alloc (lines 131-143).  Merge_prev returns
\* block, so  block != t  is false and lines 136-139 are never run.
MpReallocRest(r, block, p, size, payload_size, dir) ==
    IF r.res # NULL THEN MpFound(r)
    ELSE MpCopyTo(MemoryPool_allocate(Free(Merge_prev(r.s, block), block), size),
                  p, payload_size, dir)

MemoryPool_reallocate(s, p, size, dir) ==
    IF p = NULL THEN MemoryPool_allocate(s, size)
    ELSE MpReallocRest(
             Alloc(Merge_next(s, HeaderOf(p)), HeaderOf(p),
                   Max(unfree_block_header_size + size, free_block_tag_size),
                   Max(unfree_block_header_size + size, free_block_header_size)),
             HeaderOf(p), p, size,
             IF Rd(s, HeaderOf(p)) < 0 THEN BadWord
             ELSE mp_size(Rd(s, HeaderOf(p))) - unfree_block_header_size,
             dir)

(***************************************************************************)
(*             src/unnamed/part_001 : sorted-list MemoryPool               *)
(*                                                                         *)
(* A pool state s is a record                                              *)
(*   list      FreeBlockList::list, the array of capacity nodes            *)
(*             [buffer, size]; <<>> while list == nullptr                  *)
(*   count     FreeBlockList::count: list[1 .. count] are the free nodes   *)
(*   capacity  FreeBlockList::capacity                                     *)
(*   chunks    the chunks reachable from chunk_head, the newest last       *)
(*   heap      what operator new[] has handed out                          *)
(*   fault     as in the pools above                                       *)
(* Positions are counted from 1: begin() is 1 and end() is count + 1.      *)
(***************************************************************************)
sl_chunk_size == Pow2(12)
base_size == 16

\* Chunk::buffer follows Chunk::next
BufferOf(chunk) == chunk + WordSize

BlockNode(buffer, size) == [buffer |-> buffer, size |-> size]

\* std::lower_bound(first, first + len, {nullptr, size}, a.size < b.size)
RECURSIVE lower_bound(_, _, _, _)
lower_bound(list, first, len, size) ==
    IF len <= 0 THEN first
    ELSE IF list[first + (len \div 2)].size < size
    THEN lower_bound(list, first + (len \div 2) + 1, len - (len \div 2) - 1, size)
    ELSE lower_bound(list, first, len \div 2, size)

\* std::upper_bound(first, first + len, {.., size}, a.size < b.size)
RECURSIVE upper_bound(_, _, _, _)
upper_bound(list, first, len, size) ==
    IF len <= 0 THEN first
    ELSE IF size < list[first + (len \div 2)].size
    THEN upper_bound(list, first, len \div 2, size)
    ELSE upper_bound(list, first + (len \div 2) + 1, len - (len \div 2) - 1, size)

\* std::copy(index, last, index + 1).  The destination lies inside the
\* source range, which std::copy leaves undefined: ovl = "memmove" is the
\* build that moves the nodes as one block, ovl = "forward" the one that
\* copies them one by one from the front.
CopyUp(list, index, last, ovl) ==
    [i \in 1 .. Len(list) |->
        IF index < i /\ i <= last
        THEN IF ovl = "forward" THEN list[index] ELSE list[i - 1]
        ELSE list[i]]

\* std::copy(target + 1, end(), target)
CopyDown(list, target, last) ==
    [i \in 1 .. Len(list) |-> IF target <= i /\ i < last - 1 THEN list[i + 1] ELSE list[i]]

\* FreeBlockList::Insert(first, last, block)
Insert(list, first, last, block, ovl) ==
    [CopyUp(list, upper_bound(list, first, last - first, block.size), last, ovl)
        EXCEPT ![upper_bound(list, first, last - first, block.size)] = block]

\* FreeBlockList::allocate once target is known; target->buffer is read
\* after the nodes have been moved
ListTake(s, target, size, ovl) ==
    IF s.list[target].size = size
    THEN [s   |-> [s EXCEPT !.list = CopyDown(@, target, s.count + 1),
                            !.count = @ - 1],
          res |-> CopyDown(s.list, target, s.count + 1)[target].buffer]
    ELSE [s   |-> [s EXCEPT !.list =
                      Insert(@, 1, target,
                             BlockNode(@[target].buffer + size, @[target].size - size),
                             ovl)],
          res |-> Insert(s.list, 1, target,
                         BlockNode(s.list[target].buffer + size,
                                   s.list[target].size - size),
                         ovl)[target].buffer]

FreeBlockList_allocate(s, size, ovl) ==
    IF s.capacity = 0 THEN [s |-> s, res |-> NULL]
    ELSE IF lower_bound(s.list, 1, s.count, size) = s.count + 1
    THEN [s |-> s, res |-> NULL]
    ELSE ListTake(s, lower_bound(s.list, 1, s.count, size), size, ovl)

\* the position of a node with the lowest buffer
LowestAt(nodes) ==
    CHOOSE i \in 1 .. Len(nodes) : \A j \in 1 .. Len(nodes) :
        nodes[i].buffer < nodes[j].buffer \/ (nodes[i].buffer = nodes[j].buffer /\ i <= j)

\* std::sort(begin(), end(), a.buffer < b.buffer)
RECURSIVE SortByBuffer(_)
SortByBuffer(nodes) ==
    IF nodes = <<>> THEN <<>>
    ELSE <<nodes[LowestAt(nodes)]>>
         \o SortByBuffer(SubSeq(nodes, 1, LowestAt(nodes) - 1)
                         \o SubSeq(nodes, LowestAt(nodes) + 1, Len(nodes)))

\* for (++it; it != end() && it->begin() == node.end(); ++it) node.size += it->size
RECURSIVE Absorb(_, _, _)
Absorb(sorted, node, it) ==
    IF it <= Len(sorted) /\ sorted[it].buffer = node.buffer + node.size
    THEN Absorb(sorted, BlockNode(node.buffer, node.size + sorted[it].size), it + 1)
    ELSE [node |-> node, it |-> it]

\* the do-while of FreeBlockList::insert (lines 87-95); a is the node and
\* the iterator the inner loop has ended with
RECURSIVE Coalesce(_, _, _, _, _)
CoalesceNext(sorted, a, new_list, new_count, ovl) ==
    IF a.it > Len(sorted)
    THEN [list  |-> Insert(new_list, 1, new_count + 1, a.node, ovl),
          count |-> new_count + 1]
    ELSE CHOOSE r \in {Coalesce(sorted, a.it, nl, new_count + 1, ovl) :
                           nl \in {Insert(new_list, 1, new_count + 1, a.node, ovl)}} : TRUE

Coalesce(sorted, it, new_list, new_count, ovl) ==
    CHOOSE r \in {CoalesceNext(sorted, a, new_list, new_count, ovl) :
                      a \in {Absorb(sorted, sorted[it], it + 1)}} : TRUE

\* new BlockNode[capacity]: nodes of indeterminate value
NewList(capacity) == [i \in 1 .. capacity |-> BlockNode(BadWord, BadWord)]

\* FreeBlockList::insert, count == capacity (lines 82-99): the nodes are
\* sorted by address, merged and inserted by size into a larger array;
\* block itself is not stored
ListRebuild(s, r) ==
    [s EXCEPT !.capacity = @ + (@ \div 2), !.list = r.list, !.count = r.count]

FreeBlockList_insert(s, block, ovl) ==
    IF s.capacity = 0
    THEN [s EXCEPT !.capacity = base_size,
                   !.list = [i \in 1 .. base_size |->
                                IF i = 1 THEN block ELSE BlockNode(NULL, 0)],
                   !.count = 1]
    ELSE IF s.count < s.capacity
    THEN [s EXCEPT !.list = Insert(@, 1, s.count + 1, block, ovl), !.count = @ + 1]
    ELSE ListRebuild(s, Coalesce(SortByBuffer(SubSeq(s.list, 1, s.count)), 1,
                                 NewList(s.capacity + (s.capacity \div 2)), 0, ovl))

\* chunk_head = new Chunk{ chunk_head }
SlNewChunk(s) ==
    [Acquire(s, WordSize + sl_chunk_size) EXCEPT !.chunks = Append(@, NewBase(s.heap))]

\* MemoryPool::allocate, no node fits (lines 154-156)
SlFromNewChunk(s, size, ovl) ==
    [s   |-> FreeBlockList_insert(
                 SlNewChunk(s),
                 BlockNode(BufferOf(NewBase(s.heap)) + size, sl_chunk_size - size), ovl),
     res |-> BufferOf(NewBase(s.heap))]

SlAfterList(s, r, size, ovl) ==
    IF r.res # NULL THEN r ELSE SlFromNewChunk(s, size, ovl)

\* MemoryPool::allocate of part_001
SortedPool_allocate(s, size, ovl) ==
    IF size = 0 THEN [s |-> s, res |-> NULL]
    ELSE IF size >= sl_chunk_size
    THEN [s |-> Acquire(s, size), res |-> NewBase(s.heap)]
    ELSE SlAfterList(s, FreeBlockList_allocate(s, size, ovl), size, ovl)

\* MemoryPool::deallocate(void*, size_t) of part_001
SortedPool_deallocate(s, p, size, ovl) ==
    IF p = NULL \/ size = 0 THEN s
    ELSE IF size >= sl_chunk_size THEN Release(s, p)
    ELSE FreeBlockList_insert(s, BlockNode(p, size), ovl)

(***************************************************************************)
(* The state of the system.                                                *)
(*   bt      the part_002 pool (record described above)                    *)
(*   btLive  the caller's outstanding regions [p, n] of the part_002 pool, *)
(*           a bag: the same region handed out twice is held twice         *)
(*   btLast  the last call on the part_002 pool and what it returned;      *)
(*           start is curr_block_ as allocate found it                     *)
(*   btOps   the number of calls made on the part_002 pool                 *)
(*   btPc    "run", "dtor" (inside ~MemoryPool) or "done"                  *)
(*   al, alLive, alLast, alOps, alPc   the same for the Allocator<T>;      *)
(*           alLive holds the pointers allocate returned and deallocate    *)
(*           has not accepted since; alCaller is the caller's own count:   *)
(*           held, the pointers allocate returned and the caller has not   *)
(*           passed to deallocate since, peak, the largest number held at  *)
(*           one time, and freed, the pointers passed to deallocate since  *)
(*           the last allocate                                             *)
(*   mp, mpLive, mpLast, mpOps, mpPc   the same for the MemoryPool of      *)
(*           src/MemoryPool.h; mpIter is the variable p of the loop of     *)
(*           its destructor                                                *)
(*   sl, slLive, slLast, slOps   the same for the sorted-list MemoryPool   *)
(*           of part_001                                                   *)
(***************************************************************************)
VARIABLES bt, btLive, btLast, btOps, btPc,
          al, alLive, alLast, alOps, alPc, alCaller,
          mp, mpLive, mpLast, mpOps, mpPc, mpIter,
          sl, slLive, slLast, slOps

btVars == <<bt, btLive, btLast, btOps, btPc>>
alVars == <<al, alLive, alLast, alOps, alPc, alCaller>>
mpVars == <<mp, mpLive, mpLast, mpOps, mpPc, mpIter>>
slVars == <<sl, slLive, slLast, slOps>>
vars == <<bt, btLive, btLast, btOps, btPc, al, alLive, alLast, alOps, alPc,
          alCaller, mp, mpLive, mpLast, mpOps, mpPc, mpIter, sl, slLive, slLast, slOps>>

\* bounds of the part_002 model: calls per run, chunks, bytes the caller fills
MaxOps == 3
MaxOpsAD == 6
MaxChunks == 2
MaxFill == 48

\* request sizes: below a word, a word, a few words, nearly a chunk
SmallSizes == {1, 8, 40}
BigSize == 4000

BtInit ==
    /\ bt = [mem |-> <<>>, heap |-> <<>>, chunk_head_ |-> NULL,
             curr_block_ |-> NULL, fault |-> ""]
    /\ btLive = EmptyBag
    /\ btLast = [op |-> "none", p |-> NULL, n |-> 0, res |-> NULL, path |-> "",
                 held |-> FALSE, old |-> 0, start |-> NULL]
    /\ btOps = 0
    /\ btPc = "run"

One(r) == SetToBag({r})

BtCanCall == btPc = "run" /\ bt.fault = ""

BtAllocated(size, r) ==
    /\ Len(r.s.heap) <= MaxChunks
    /\ bt' = r.s
    /\ btLive' = IF r.res # NULL /\ r.s.fault = ""
                 THEN btLive (+) One([p |-> r.res, n |-> size]) ELSE btLive
    /\ btLast' = [op |-> "allocate", p |-> NULL, n |-> size, res |-> r.res,
                  path |-> "", held |-> FALSE, old |-> 0, start |-> bt.curr_block_]

BtAllocate(size) ==
    /\ BtCanCall
    /\ BtAllocated(size, allocate(bt, size))
    /\ btOps' = btOps + 1
    /\ UNCHANGED <<btPc, alVars, mpVars, slVars>>

\* deallocate(p) of a region the caller holds
BtDeallocate(r) ==
    /\ BtCanCall
    /\ BagIn(r, btLive)
    /\ bt' = deallocate(bt, r.p)
    /\ btLive' = btLive (-) One(r)
    /\ btLast' = [op |-> "deallocate", p |-> r.p, n |-> r.n, res |-> NULL,
                  path |-> IF Rd(bt, r.p - WordSize) = r.p THEN "freed" ELSE "rejected",
                  held |-> FALSE, old |-> 0, start |-> NULL]
    /\ btOps' = btOps + 1
    /\ UNCHANGED <<btPc, alVars, mpVars, slVars>>

BtReallocated(r, size, q) ==
    /\ Len(q.s.heap) <= MaxChunks
    /\ bt' = q.s
    /\ btLive' = IF q.res # NULL /\ q.s.fault = ""
                 THEN (btLive (-) One(r)) (+) One([p |-> q.res, n |-> size])
                 ELSE btLive
    /\ btLast' = [op |-> "reallocate", p |-> r.p, n |-> size, res |-> q.res,
                  path |-> q.path, held |-> HoldsPat(bt.mem, r.p, r.n), old |-> r.n, start |-> NULL]

\* reallocate(p, size) of a region the caller holds
BtReallocate(r, size, dir) ==
    /\ BtCanCall
    /\ BagIn(r, btLive)
    /\ BtReallocated(r, size, reallocate(bt, r.p, size, dir))
    /\ btOps' = btOps + 1
    /\ UNCHANGED <<btPc, alVars, mpVars, slVars>>

\* the caller stores B in a region it holds
BtFill(r) ==
    /\ BtCanCall
    /\ BagIn(r, btLive)
    /\ r.n > 0 /\ r.n <= MaxFill
    /\ ~HoldsPat(bt.mem, r.p, r.n)
    /\ bt' = [bt EXCEPT !.mem = FillBytes(@, r.p, r.n)]
    /\ btLast' = [op |-> "fill", p |-> r.p, n |-> r.n, res |-> NULL, path |-> "",
                  held |-> FALSE, old |-> 0, start |-> NULL]
    /\ UNCHANGED <<btLive, btOps, btPc, alVars, mpVars, slVars>>

\* pointers into the pool's chunks that no allocate returned: the second
\* word of a held payload, and the word after a chunk header
StrayPtrs ==
    {p \in {r.p + WordSize : r \in BagToSet(btLive)}
           \cup {bt.heap[i].base + block_header_size : i \in 1 .. Len(bt.heap)} :
        /\ InHeap(bt.heap, p - block_header_size, block_header_size)
        /\ [p |-> p, n |-> 0] \notin {[p |-> r.p, n |-> 0] : r \in BagToSet(btLive)}}

\* deallocate(p) with a pointer the caller does not hold
BtDeallocateStray(p) ==
    /\ BtCanCall
    /\ Rd(bt, p - WordSize) # p
    /\ bt' = deallocate(bt, p)
    /\ btLast' = [op |-> "deallocate", p |-> p, n |-> 0, res |-> NULL,
                  path |-> "rejected", held |-> FALSE, old |-> 0, start |-> NULL]
    /\ btOps' = btOps + 1
    /\ UNCHANGED <<btLive, btPc, alVars, mpVars, slVars>>

BtReallocatedStray(p, size, q) ==
    /\ bt' = q.s
    /\ btLast' = [op |-> "reallocate", p |-> p, n |-> size, res |-> q.res,
                  path |-> q.path, held |-> FALSE, old |-> 0, start |-> NULL]

\* reallocate(p, size) with a pointer the caller does not hold
BtReallocateStray(p, size) ==
    /\ BtCanCall
    /\ Rd(bt, p - WordSize) # p
    /\ BtReallocatedStray(p, size, reallocate(bt, p, size, "up"))
    /\ btOps' = btOps + 1
    /\ UNCHANGED <<btLive, btPc, alVars, mpVars, slVars>>

\* ~MemoryPool(), one iteration of its loop per step
BtDestroy ==
    /\ btPc \in {"run", "dtor"}
    /\ bt.fault = ""
    /\ IF bt.chunk_head_ = NULL
       THEN /\ btPc' = "done"
            /\ UNCHANGED bt
       ELSE /\ btPc' = "dtor"
            /\ bt' = DestroyStep(bt)
    /\ btLast' = [op |-> "destroy", p |-> NULL, n |-> 0, res |-> NULL, path |-> "",
                  held |-> FALSE, old |-> 0, start |-> NULL]
    /\ UNCHANGED <<btLive, btOps, alVars, mpVars, slVars>>

(***************************************************************************)
(*                     Allocator<T>: calls of the caller                   *)
(***************************************************************************)
\* bounds of the Allocator model: calls per run, chunks
MaxAlOps == 3
MaxAlChunks == 2

\* the numbers of allocate() calls a run starts after
AllocatorPrefill == {0, blocks_per_chunk - 1, blocks_per_chunk}

AlNoCall ==
    [op |-> "none", p |-> NULL, res |-> NULL, wasLive |-> FALSE, accepted |-> FALSE,
     threw |-> FALSE, grew |-> FALSE, after |-> NULL, again |-> FALSE]

AlStart(def, k) ==
    /\ al = AllocatorAfter(def, k)
    /\ alLive = SetToBag(AllocatorAfterLive(k))
    /\ alLast = AlNoCall
    /\ alCaller = [held |-> AllocatorAfterLive(k), peak |-> k, freed |-> {}]
    /\ alOps = 0
    /\ alPc = "run"

AlInit == \E def \in {1, 2}, k \in AllocatorPrefill : AlStart(def, k)

\* the allocator is constructed and not used
AlIdle == AlStart(1, 0)

AlCanCall == alPc = "run" /\ al.fault = ""

\* the caller's count after allocate() has returned p
CallerGot(c, p) ==
    [held  |-> c.held \cup {p},
     peak  |-> IF Cardinality(c.held \cup {p}) > c.peak
               THEN Cardinality(c.held \cup {p}) ELSE c.peak,
     freed |-> {}]

AlAllocated(r) ==
    /\ Len(r.s.heap) <= MaxAlChunks
    /\ al' = r.s
    /\ alLive' = IF r.s.fault = "" THEN alLive (+) One(r.res) ELSE alLive
    /\ alLast' = [AlNoCall EXCEPT !.op = "allocate", !.res = r.res,
                      !.grew = Len(r.s.heap) > Len(al.heap),
                      !.after = IF alLast.op = "deallocate" /\ alLast.wasLive
                                THEN alLast.p ELSE NULL]
    /\ alCaller' = IF r.s.fault = "" THEN CallerGot(alCaller, r.res) ELSE alCaller

AlAllocate ==
    /\ AlCanCall
    /\ AlAllocated(Allocator_allocate(al))
    /\ alOps' = alOps + 1
    /\ UNCHANGED <<alPc, btVars, mpVars, slVars>>

\* the pointers the caller passes to deallocate: the first, the second and
\* the last slot of every chunk, handed out or not
AllocatorPtrs ==
    {BlockAt(al.heap[i].base, j) :
        i \in 1 .. Len(al.heap), j \in {0, 1, blocks_per_chunk - 1}}

AlDeallocated(p, r) ==
    /\ al' = r.s
    /\ alLive' = IF r.accepted THEN alLive (-) One(p) ELSE alLive
    /\ alLast' = [AlNoCall EXCEPT !.op = "deallocate", !.p = p,
                      !.wasLive = BagIn(p, alLive),
                      !.accepted = r.accepted, !.threw = r.threw,
                      !.again = p \in alCaller.freed]
    /\ alCaller' = [alCaller EXCEPT !.held = @ \ {p}, !.freed = @ \cup {p}]

AlDeallocate(p) ==
    /\ AlCanCall
    /\ AlDeallocated(p, Allocator_deallocate(al, p))
    /\ alOps' = alOps + 1
    /\ UNCHANGED <<alPc, btVars, mpVars, slVars>>

\* ~Allocator(), one iteration of its loop per step
AlDestroy ==
    /\ alPc \in {"run", "dtor"}
    /\ al.fault = ""
    /\ IF al.chunk_head_ = NULL
       THEN /\ alPc' = "done"
            /\ UNCHANGED al
       ELSE /\ alPc' = "dtor"
            /\ al' = Allocator_destroy_step(al)
    /\ alLast' = [AlNoCall EXCEPT !.op = "destroy"]
    /\ UNCHANGED <<alLive, alOps, alCaller, btVars, mpVars, slVars>>

(***************************************************************************)
(*               MemoryPool of src/MemoryPool.h: calls of the caller       *)
(***************************************************************************)
\* bound of the MemoryPool.h model: calls per run
MaxMpOps == 4

\* request sizes: a word, three words, a few words, nearly a chunk
MpSizes == {8, 24, 100, 4000}

MpNoCall ==
    [op |-> "none", p |-> NULL, n |-> 0, res |-> NULL, grew |-> FALSE, fit |-> FALSE,
     late |-> FALSE,
     seen |-> [hdr |-> NULL, prevFree |-> FALSE, prev |-> NULL, size |-> 0,
               prevWord |-> 0]]

MpInit ==
    /\ mp = [mem |-> <<>>, heap |-> <<>>, chunk_head_ |-> NULL,
             free_block_head_ |-> NULL, fault |-> ""]
    /\ mpLive = EmptyBag
    /\ mpLast = MpNoCall
    /\ mpOps = 0
    /\ mpPc = "run"
    /\ mpIter = NULL

\* the blocks on the free list, in the order allocate visits them
RECURSIVE MpListed(_, _, _)
MpListed(s, curr, fuel) ==
    IF curr <= 0 \/ fuel = 0 THEN {}
    ELSE {curr} \cup MpListed(s, Rd(s, NextOf(curr)), fuel - 1)

\* a listed block has room for alloc_size bytes
MpFits(s, size) ==
    \E b \in MpListed(s, s.free_block_head_, ScanFuel(s)) :
        mp_size(Rd(s, b)) >= Max(unfree_block_header_size + size, free_block_tag_size)

MpCanCall == mpPc = "run" /\ mp.fault = ""

MpAllocated(size, r) ==
    /\ Len(r.s.heap) <= MaxChunks
    /\ mp' = r.s
    /\ mpLive' = IF r.res # NULL THEN mpLive (+) One([p |-> r.res, n |-> size])
                 ELSE mpLive
    /\ mpLast' = [MpNoCall EXCEPT !.op = "allocate", !.n = size, !.res = r.res,
                      !.grew = r.grew, !.fit = MpFits(mp, size)]

MpAllocate(size) ==
    /\ MpCanCall
    /\ MpAllocated(size, MemoryPool_allocate(mp, size))
    /\ mpOps' = mpOps + 1
    /\ UNCHANGED <<mpPc, mpIter, btVars, alVars, slVars>>

\* ~MemoryPool(): auto p = chunk_head_
MpDestroyBegin ==
    /\ MpCanCall
    /\ mpPc' = "dtor"
    /\ mpIter' = mp.chunk_head_
    /\ mpLast' = [MpNoCall EXCEPT !.op = "destroy"]
    /\ UNCHANGED <<mp, mpLive, mpOps, btVars, alVars, slVars>>

MpDestroyed(r) ==
    /\ mp' = IF r.p < 0 THEN Crash(r.s) ELSE r.s
    /\ mpIter' = r.p
    /\ mpLast' = [MpNoCall EXCEPT !.op = "destroy", !.late = mpLast.late \/ r.late]

\* ~MemoryPool(): the test of the loop and one iteration
MpDestroyStep(stale) ==
    /\ mpPc = "dtor"
    /\ mp.fault = ""
    /\ IF mpIter = NULL
       THEN /\ mpPc' = "done"
            /\ UNCHANGED <<mp, mpIter, mpLast>>
       ELSE /\ mpPc' = "dtor"
            /\ MpDestroyed(MemoryPool_destroy_step(mp, mpIter, stale))
    /\ UNCHANGED <<mpLive, mpOps, btVars, alVars, slVars>>

(***************************************************************************)
(*            Sorted-list MemoryPool of part_001: calls of the caller      *)
(***************************************************************************)
\* bound of the part_001 model: calls per run
MaxSlOps == 4

\* request sizes: two small ones, nearly a chunk, a chunk (served by new[])
SlSizes == {100, 200, 4000, sl_chunk_size}

SlNoCall ==
    [op |-> "none", p |-> NULL, n |-> 0, res |-> NULL, fit |-> FALSE,
     start |-> NULL, size |-> 0, count |-> 0]

SlInit ==
    /\ sl = [list |-> <<>>, count |-> 0, capacity |-> 0, chunks |-> <<>>,
             heap |-> <<>>, fault |-> ""]
    /\ slLive = EmptyBag
    /\ slLast = SlNoCall
    /\ slOps = 0

\* the free nodes that have room for size bytes, by position
SlRoomy(s, size) == {i \in 1 .. s.count : s.list[i].size >= size}

\* the first of them
SlFirstFit(s, size) == s.list[CHOOSE i \in SlRoomy(s, size) : \A j \in SlRoomy(s, size) : i <= j]

SlAllocated(size, r) ==
    /\ Len(r.s.heap) <= MaxChunks
    /\ sl' = r.s
    /\ slLive' = IF r.res # NULL THEN slLive (+) One([p |-> r.res, n |-> size])
                 ELSE slLive
    /\ slLast' = [SlNoCall EXCEPT
                      !.op = "allocate", !.n = size, !.res = r.res,
                      !.fit = size < sl_chunk_size /\ SlRoomy(sl, size) # {},
                      !.start = IF size < sl_chunk_size /\ SlRoomy(sl, size) # {}
                                THEN SlFirstFit(sl, size).buffer ELSE NULL,
                      !.size = IF size < sl_chunk_size /\ SlRoomy(sl, size) # {}
                               THEN SlFirstFit(sl, size).size ELSE 0,
                      !.count = sl.count]

SlAllocate(size, ovl) ==
    /\ sl.fault = ""
    /\ SlAllocated(size, SortedPool_allocate(sl, size, ovl))
    /\ slOps' = slOps + 1
    /\ UNCHANGED <<btVars, alVars, mpVars>>

\* deallocate(p, size) of a region the caller holds, with the size it asked for
SlDeallocate(r, ovl) ==
    /\ sl.fault = ""
    /\ BagIn(r, slLive)
    /\ sl' = SortedPool_deallocate(sl, r.p, r.n, ovl)
    /\ slLive' = slLive (-) One(r)
    /\ slLast' = [SlNoCall EXCEPT !.op = "deallocate", !.p = r.p, !.n = r.n,
                      !.count = sl.count]
    /\ slOps' = slOps + 1
    /\ UNCHANGED <<btVars, alVars, mpVars>>

(***************************************************************************)
(*     MemoryPool of src/MemoryPool.h: deallocate, reallocate, stores      *)
(***************************************************************************)
\* bound of the runs with deallocate and reallocate: calls per run
MaxMpdOps == 5

\* request sizes: headers that lie 56 bytes apart, and a larger block
MpdSizes == {48, 100}

\* memset(p, 0, n)
ZeroBytes(m, p, n) == [x \in p .. (p + n - 1) |-> 0] @@ m

HoldsZero(m, p, n) ==
    \A k \in 0 .. (n - 1) : (p + k) \in DOMAIN m /\ m[p + k] = 0

\* what the call finds at the header it derives from p
MpSeen(s, p) ==
    [hdr      |-> HeaderOf(p),
     prevFree |-> Rd(s, HeaderOf(p)) >= 0 /\ mp_is_prev_free(Rd(s, HeaderOf(p))) = 1,
     prev     |-> Prev_neighbor(s, HeaderOf(p)),
     size     |-> IF Rd(s, HeaderOf(p)) < 0 THEN 0 ELSE mp_size(Rd(s, HeaderOf(p))),
     prevWord |-> Rd(s, Prev_neighbor(s, HeaderOf(p)))]

\* deallocate(p) of a region the caller holds
MpDeallocate(r) ==
    /\ MpCanCall
    /\ BagIn(r, mpLive)
    /\ mp' = MemoryPool_deallocate(mp, r.p)
    /\ mpLive' = mpLive (-) One(r)
    /\ mpLast' = [MpNoCall EXCEPT !.op = "deallocate", !.p = r.p, !.n = r.n,
                      !.seen = MpSeen(mp, r.p)]
    /\ mpOps' = mpOps + 1
    /\ UNCHANGED <<mpPc, mpIter, btVars, alVars, slVars>>

MpReallocated(r, size, q) ==
    /\ Len(q.s.heap) <= MaxChunks
    /\ mp' = q.s
    /\ mpLive' = IF q.res # NULL
                 THEN (mpLive (-) One(r)) (+) One([p |-> q.res, n |-> size])
                 ELSE mpLive
    /\ mpLast' = [MpNoCall EXCEPT !.op = "reallocate", !.p = r.p, !.n = size,
                      !.res = q.res, !.grew = q.grew, !.seen = MpSeen(mp, r.p)]

\* reallocate(p, size) of a region the caller holds
MpReallocate(r, size, dir) ==
    /\ MpCanCall
    /\ BagIn(r, mpLive)
    /\ MpReallocated(r, size, MemoryPool_reallocate(mp, r.p, size, dir))
    /\ mpOps' = mpOps + 1
    /\ UNCHANGED <<mpPc, mpIter, btVars, alVars, slVars>>

\* the caller clears a region it holds
MpFill(r) ==
    /\ MpCanCall
    /\ BagIn(r, mpLive)
    /\ r.n > 0
    /\ ~HoldsZero(mp.mem, r.p, r.n)
    /\ mp' = [mp EXCEPT !.mem = ZeroBytes(@, r.p, r.n)]
    /\ mpLast' = [MpNoCall EXCEPT !.op = "fill", !.p = r.p, !.n = r.n]
    /\ UNCHANGED <<mpLive, mpOps, mpPc, mpIter, btVars, alVars, slVars>>

\* the pool is constructed and not used
BtIdle == BtInit
MpIdle == MpInit
SlIdle == SlInit

\* the initial states: one of the four is used, the others stay idle
InitBT == BtInit /\ AlIdle /\ MpIdle /\ SlIdle
InitAL == AlInit /\ BtIdle /\ MpIdle /\ SlIdle
InitMP == MpInit /\ BtIdle /\ AlIdle /\ SlIdle
InitSL == SlInit /\ BtIdle /\ AlIdle /\ MpIdle

(***************************************************************************)
(*                           Specifications                                *)
(***************************************************************************)
\* part_002: every call, with held and with stray pointers
BtNext ==
    \/ \E size \in SmallSizes \cup {BigSize} : btOps < MaxOps /\ BtAllocate(size)
    \/ \E r \in BagToSet(btLive) : btOps < MaxOps /\ BtDeallocate(r)
    \/ \E r \in BagToSet(btLive), size \in SmallSizes \cup {0}, dir \in {"up", "down"} :
           btOps < MaxOps /\ BtReallocate(r, size, dir)
    \/ \E r \in BagToSet(btLive) : btOps < MaxOps /\ BtFill(r)
    \/ \E p \in StrayPtrs : btOps < MaxOps /\ BtDeallocateStray(p)
    \/ \E p \in StrayPtrs, size \in SmallSizes : btOps < MaxOps /\ BtReallocateStray(p, size)

SpecBT == InitBT /\ [][BtNext]_vars

\* part_002: allocate and deallocate of held pointers, the caller's stores,
\* and the destructor
BtNextAD ==
    \/ \E size \in {1, 8, BigSize} : btOps < MaxOpsAD /\ BtAllocate(size)
    \/ \E r \in BagToSet(btLive) : btOps < MaxOpsAD /\ BtDeallocate(r)
    \/ \E r \in BagToSet(btLive) : btOps < MaxOpsAD /\ BtFill(r)
    \/ BtDestroy

SpecBTAD == InitBT /\ [][BtNextAD]_vars

\* Allocator<T>, either definition
AlNext ==
    \/ alOps < MaxAlOps /\ AlAllocate
    \/ \E p \in AllocatorPtrs : alOps < MaxAlOps /\ AlDeallocate(p)
    \/ AlDestroy

SpecAL == InitAL /\ [][AlNext]_vars

\* MemoryPool of src/MemoryPool.h
MpNext ==
    \/ \E size \in MpSizes : mpOps < MaxMpOps /\ MpAllocate(size)
    \/ MpDestroyBegin
    \/ \E stale \in BOOLEAN : MpDestroyStep(stale)

SpecMP == InitMP /\ [][MpNext]_vars

\* the sorted-list MemoryPool of part_001
SlNext ==
    \/ \E size \in SlSizes, ovl \in {"memmove", "forward"} :
           slOps < MaxSlOps /\ SlAllocate(size, ovl)
    \/ \E r \in BagToSet(slLive), ovl \in {"memmove", "forward"} :
           slOps < MaxSlOps /\ SlDeallocate(r, ovl)

SpecSL == InitSL /\ [][SlNext]_vars

\* MemoryPool of src/MemoryPool.h: allocate, deallocate and reallocate of
\* held pointers, and the caller's stores
MpdNext ==
    \/ \E size \in MpdSizes : mpOps < MaxMpdOps /\ MpAllocate(size)
    \/ \E r \in BagToSet(mpLive) : mpOps < MaxMpdOps /\ MpDeallocate(r)
    \/ \E r \in BagToSet(mpLive), size \in MpdSizes, dir \in {"up", "down"} :
           mpOps < MaxMpdOps /\ MpReallocate(r, size, dir)
    \/ \E r \in BagToSet(mpLive) : mpOps < MaxMpdOps /\ MpFill(r)

SpecMPD == InitMP /\ [][MpdNext]_vars

\* bound of the runs on both variable pools: calls per run, on either pool
MaxVpOps == 4

\* the variable pools side by side: allocate, with size 0 too, and
\* deallocate of held pointers, on either pool
VpNext ==
    \/ \E size \in {0, 8, BigSize} : btOps + mpOps < MaxVpOps /\ BtAllocate(size)
    \/ \E r \in BagToSet(btLive) : btOps + mpOps < MaxVpOps /\ BtDeallocate(r)
    \/ \E size \in {0, 48, BigSize} : btOps + mpOps < MaxVpOps /\ MpAllocate(size)
    \/ \E r \in BagToSet(mpLive) : btOps + mpOps < MaxVpOps /\ MpDeallocate(r)

SpecVP == InitBT /\ [][VpNext]_vars

\* bound of the runs of part_002 with one request size: calls per run
MaxOps8 == 7

\* part_002 with blocks of one size, which are re-allocated whole
BtNext8 ==
    \/ btOps < MaxOps8 /\ BtAllocate(WordSize)
    \/ \E r \in BagToSet(btLive) : btOps < MaxOps8 /\ BtDeallocate(r)
    \/ \E r \in BagToSet(btLive) : btOps < MaxOps8 /\ BtReallocate(r, WordSize, "up")

SpecBT8 == InitBT /\ [][BtNext8]_vars


\* part_002 with requests below a word: blocks smaller than a header and
\* a footer
MaxOps1 == 6

BtNext1 ==
    \/ btOps < MaxOps1 /\ BtAllocate(1)
    \/ \E r \in BagToSet(btLive) : btOps < MaxOps1 /\ BtDeallocate(r)
    \/ \E r \in BagToSet(btLive) : btOps < MaxOps1 /\ BtReallocate(r, 1, "up")

SpecBT1 == InitBT /\ [][BtNext1]_vars

\* part_002 with small and chunk-filling requests: the scan of allocate
\* runs over more than one chunk
MaxOpsS == 6

BtNextS ==
    \/ \E size \in {WordSize, BigSize} : btOps < MaxOpsS /\ BtAllocate(size)
    \/ \E r \in BagToSet(btLive) : btOps < MaxOpsS /\ BtDeallocate(r)

SpecBTS == InitBT /\ [][BtNextS]_vars

\* part_002 with requests around the size that fills a default chunk
MaxOpsC == 4

\* a word, and the requests that need default_size - 1 and default_size
\* bytes of chunk
CarveSizes ==
    {WordSize,
     default_size - 1 - chunk_tag_size - block_header_size - block_tag_size,
     default_size - chunk_tag_size - block_header_size - block_tag_size}

BtNextC ==
    \/ \E size \in CarveSizes : btOps < MaxOpsC /\ BtAllocate(size)
    \/ \E r \in BagToSet(btLive) : btOps < MaxOpsC /\ BtDeallocate(r)

SpecBTC == InitBT /\ [][BtNextC]_vars

(***************************************************************************)
(* The sorted-list MemoryPool of part_001 with a full node array.          *)
(* A new pool has served k calls of allocate(size) and then one call of    *)
(* deallocate(p, size) for each of the first m pointers they returned.     *)
(***************************************************************************)
SlAllocStep(r, a) == [s |-> a.s, got |-> Append(r.got, a.res)]

RECURSIVE SlAllocRun(_, _, _)
SlAllocRun(r, size, k) ==
    IF k = 0 \/ r.s.fault # "" THEN r
    ELSE SlAllocRun(SlAllocStep(r, SortedPool_allocate(r.s, size, "memmove")), size, k - 1)

RECURSIVE SlFreeRun(_, _, _)
SlFreeRun(r, size, m) ==
    IF m = 0 THEN r.s
    ELSE SortedPool_deallocate(SlFreeRun(r, size, m - 1), r.got[m], size, "memmove")

SlNewPool ==
    [list |-> <<>>, count |-> 0, capacity |-> 0, chunks |-> <<>>, heap |-> <<>>,
     fault |-> ""]

\* base_size + 1 regions of 100 bytes are allocated and all but the last
\* two are given back: each deallocate adds a node to the one of the chunk's
\* rest, so count == capacity == base_size
SlFullRun == SlAllocRun([s |-> SlNewPool, got |-> <<>>], 100, base_size + 1)

SlFullInit ==
    /\ sl = SlFreeRun(SlFullRun, 100, base_size - 1)
    /\ slLive = SetToBag({[p |-> SlFullRun.got[i], n |-> 100] :
                              i \in base_size .. base_size + 1})
    /\ slLast = SlNoCall
    /\ slOps = 0

InitSLF == SlFullInit /\ BtIdle /\ AlIdle /\ MpIdle

MaxSlfOps == 4

SlfNext ==
    \/ \E size \in {100, 200}, ovl \in {"memmove", "forward"} :
           slOps < MaxSlfOps /\ SlAllocate(size, ovl)
    \/ \E r \in BagToSet(slLive), ovl \in {"memmove", "forward"} :
           slOps < MaxSlfOps /\ SlDeallocate(r, ovl)

SpecSLF == InitSLF /\ [][SlfNext]_vars

\* bound of the runs of part_002 that grow a held region: calls per run
MaxOpsR == 6

\* part_002 with requests of one word, grown to two words by reallocate
BtNextR ==
    \/ btOps < MaxOpsR /\ BtAllocate(WordSize)
    \/ \E r \in BagToSet(btLive) : btOps < MaxOpsR /\ BtDeallocate(r)
    \/ \E r \in BagToSet(btLive) : btOps < MaxOpsR /\ BtReallocate(r, 2 * WordSize, "up")

SpecBTR == InitBT /\ [][BtNextR]_vars
(***************************************************************************)
(*                        Claims on part_002                               *)
(***************************************************************************)
BtLiveSet == BagToSet(btLive)

Disjoint(a, b) == a.n = 0 \/ b.n = 0 \/ a.p + a.n <= b.p \/ b.p + b.n <= a.p

\* C1: the regions of any two outstanding allocations are disjoint, and no
\* region is handed out a second time while it is still held.
C1_NoOverlap ==
    /\ \A r \in BtLiveSet : CopiesIn(r, btLive) = 1
    /\ \A a, b \in BtLiveSet : a # b => Disjoint(a, b)

\* C2: reallocate(p, t) with t > 0 of a held region of s bytes that hold B
\* returns a region whose first min(s, t) bytes are those of B, whichever
\* return statement it leaves by.
C2_PrefixPreserved ==
    (/\ btLast.op = "reallocate"
     /\ btLast.held
     /\ btLast.n > 0
     /\ btLast.path \in {"in_place", "merged_prev", "moved"})
        => /\ bt.fault = ""
           /\ btLast.res # NULL
           /\ HoldsPat(bt.mem, btLast.res, Min(btLast.old, btLast.n))

InChunk(c, a) == c.base <= a /\ a < c.base + c.size

\* the chunk is one block: free, is_last, not is_prev_free, of full size
OneFreeBlock(c) ==
    ReadWord(bt.mem, first_block(c.base)) = (c.size - chunk_tag_size) * 8 + 5

\* C3: a chunk none of whose regions is still held is one free block
\* spanning chunk_size - chunk header - chunk footer.
C3_CoalescingComplete ==
    \A i \in 1 .. Len(bt.heap) :
        (btPc = "run" /\ \A r \in BtLiveSet : ~InChunk(bt.heap[i], r.p))
            => bt.fault = "" /\ OneFreeBlock(bt.heap[i])

\* C7: a deallocate or reallocate call whose pointer is not null and whose
\* derived header has mask # p leaves the pool as it was (memory, cursor,
\* chunk list), and reallocate returns null.
C7_RejectedUnchanged ==
    [][(/\ btOps' = btOps + 1
        /\ btLast'.op \in {"deallocate", "reallocate"}
        /\ btLast'.p # NULL
        /\ Rd(bt, btLast'.p - WordSize) # btLast'.p)
           => /\ bt' = bt
              /\ btLast'.op = "reallocate" => btLast'.res = NULL]_vars

\* C7 witness: reallocate was just called on a pool that holds blocks with
\* a pointer whose header has another mask
C7_Witness ==
    /\ btLast.op = "reallocate"
    /\ btLast.path = "rejected"
    /\ btLast.p # NULL
    /\ bt.chunk_head_ # NULL
    /\ BtLiveSet # {}

\* C9: reallocate(p, 0) of a held pointer frees p's block and returns null.
C9_ZeroSizeFrees ==
    (/\ btLast.op = "reallocate"
     /\ btLast.n = 0
     /\ btLast.p # NULL
     /\ btLast.path # "rejected")
        => /\ btLast.res = NULL
           /\ is_free(bt, btLast.p - block_header_size)

(***************************************************************************)
(*                        Claims on Allocator<T>                           *)
(***************************************************************************)
AlLiveSet == BagToSet(alLive)

\* the slots of the free list, which has ended after as many steps as
\* there are slots if it ends at all
AlFreeSet == Visited(al, al.free_block_head_, Len(al.heap) * blocks_per_chunk)
AlListEnds == Jump(al, al.free_block_head_, Len(al.heap) * blocks_per_chunk) = NULL

Partition(free, live, slots) ==
    /\ free \cap live = {}
    /\ free \cup live = slots

\* C4: every slot of every chunk is either held (returned by allocate and
\* not accepted by deallocate since) or on the free list, never both; the
\* free list ends in null without visiting a slot twice; no pointer is held
\* twice.
C4_SlotPartition ==
    alPc = "run" =>
        /\ al.fault = ""
        /\ AlListEnds
        /\ Partition(AlFreeSet, AlLiveSet, AllSlots(al))
        /\ \A p \in AlLiveSet : CopiesIn(p, alLive) = 1

\* C4 witness: two chunks, and deallocate has just put a held slot on the
\* free list
C4_Witness ==
    /\ alPc = "run"
    /\ Len(al.heap) = 2
    /\ alLast.op = "deallocate"
    /\ alLast.wasLive
    /\ alLast.accepted
    /\ AlLiveSet # {}

\* C5: deallocate(p) of a held pointer makes p's slot the head of the free
\* list, and the allocate() that follows returns p without a new chunk.
C5_DeallocateMakesHead ==
    /\ (alLast.op = "deallocate" /\ alLast.wasLive)
           => (alLast.accepted /\ al.free_block_head_ = alLast.p)
    /\ (alLast.op = "allocate" /\ alLast.after # NULL)
           => (alLast.res = alLast.after /\ ~alLast.grew)

\* C6: deallocate(p) of a p whose slot's mask is not p returns to its
\* caller without throwing and leaves head, link words and chunks as they
\* were.
C6_RejectReturnsNormally ==
    [][(/\ alOps' = alOps + 1
        /\ alLast'.op = "deallocate"
        /\ AllocatorRd(al, FlagOf(alLast'.p)) # alLast'.p)
           => /\ ~alLast'.threw
              /\ al' = al]_vars

(***************************************************************************)
(*                 Claims on the MemoryPool of src/MemoryPool.h            *)
(***************************************************************************)
MpLiveSet == BagToSet(mpLive)

\* C8: allocate(size) takes the first listed block that has room for
\* alloc_size and a new chunk when none has; the size bytes at the pointer
\* it returns lie in one chunk and in no other outstanding region.
C8_FirstFit ==
    (mpLast.op = "allocate" /\ mpLast.res # NULL)
        => /\ mp.fault = ""
           /\ ~mpLast.fit => mpLast.grew
           /\ InHeap(mp.heap, mpLast.res, mpLast.n)
           /\ \A r \in MpLiveSet : CopiesIn(r, mpLive) = 1
           /\ \A a, b \in MpLiveSet : a # b => Disjoint(a, b)

\* C10: the destructor releases every chunk once, none twice, reads no
\* chunk it has released, and when it is done no chunk is still held.
C10_ReleasedOnce ==
    mpPc \in {"dtor", "done"} =>
        /\ mp.fault = ""
        /\ ~mpLast.late
        /\ \A i \in 1 .. Len(mp.heap) : mp.heap[i].released <= 1
        /\ mpPc = "done" => \A i \in 1 .. Len(mp.heap) : mp.heap[i].released = 1

(***************************************************************************)
(*              Claims on the sorted-list MemoryPool of part_001           *)
(***************************************************************************)
SlNodes == {sl.list[i] : i \in 1 .. sl.count}

\* C12: when a free node has room, allocate(size) returns the start the
\* first such node had before the call; an exact fit removes the node
\* (count one less), otherwise the node becomes the remainder
\* {start + size, node.size - size} (count unchanged); no free node covers
\* the returned region afterwards.
C12_TakesFirstFit ==
    (slLast.op = "allocate" /\ slLast.fit)
        => /\ slLast.res = slLast.start
           /\ slLast.size = slLast.n => sl.count = slLast.count - 1
           /\ slLast.size # slLast.n =>
                  /\ sl.count = slLast.count
                  /\ BlockNode(slLast.start + slLast.n, slLast.size - slLast.n) \in SlNodes
           /\ \A node \in SlNodes :
                  Disjoint([p |-> node.buffer, n |-> node.size],
                           [p |-> slLast.res, n |-> slLast.n])

(***************************************************************************)
(*                  Claims on the blocks of the variable pools             *)
(***************************************************************************)
\* the bit is_last of a block's first word: bit 2 in part_002, bit 0 in
\* src/MemoryPool.h
WordIsLast(pool, m) == IF pool = "bt" THEN LastBit(m) # 0 ELSE mp_is_last(m) = 1
WordIsFree(pool, m) == IF pool = "bt" THEN FreeBit(m) = 1 ELSE mp_is_free(m) = 1
WordIsPrevFree(pool, m) ==
    IF pool = "bt" THEN PrevFreeBit(m) # 0 ELSE mp_is_prev_free(m) = 1

\* the block area of a chunk: after the chunk header, up to the chunk
\* footer (part_002) or the end of the chunk (src/MemoryPool.h)
AreaBegin(c) == c.base + WordSize
AreaEnd(pool, c) == IF pool = "bt" THEN c.base + c.size - chunk_footer_size
                    ELSE c.base + c.size

WalkFuel == 64

WalkCons(b, w) == [blocks |-> <<b>> \o w.blocks, ok |-> w.ok]

\* the blocks met from b on by stepping address + size; ok when the walk
\* ends with an is_last block that ends at end
RECURSIVE Walk(_, _, _, _, _)
Walk(pool, s, b, end, fuel) ==
    IF fuel = 0 \/ b + WordSize > end \/ Rd(s, b) < 0 \/ Rd(s, b) \div 8 <= 0
    THEN [blocks |-> <<>>, ok |-> FALSE]
    ELSE IF WordIsLast(pool, Rd(s, b))
    THEN [blocks |-> <<b>>, ok |-> b + (Rd(s, b) \div 8) = end]
    ELSE WalkCons(b, Walk(pool, s, b + (Rd(s, b) \div 8), end, fuel - 1))

Tiling(pool, s, c) == Walk(pool, s, AreaBegin(c), AreaEnd(pool, c), WalkFuel)

\* pairs <<block, next block>> of the chunks of s
Neighbours(pool, s) ==
    UNION {{<<Tiling(pool, s, s.heap[i]).blocks[k - 1], Tiling(pool, s, s.heap[i]).blocks[k]>> :
               k \in 2 .. Len(Tiling(pool, s, s.heap[i]).blocks)} :
           i \in 1 .. Len(s.heap)}

AllBlocks(pool, s) ==
    UNION {{Tiling(pool, s, s.heap[i]).blocks[k] :
               k \in 1 .. Len(Tiling(pool, s, s.heap[i]).blocks)} :
           i \in 1 .. Len(s.heap)}

\* boundary-tag granularity of the specification: 2 * pointer width
Granularity == 2 * WordSize

Granular(s, r, header_size) ==
    /\ \E i \in 1 .. Len(s.heap) :
           InChunk(s.heap[i], r.p) /\ (r.p - s.heap[i].base) % Granularity = 0
    /\ Rd(s, r.p - header_size) >= 0
    /\ (Rd(s, r.p - header_size) \div 8) % Granularity = 0

\* C11: every pointer allocate has returned lies a multiple of G = 16
\* bytes above its chunk's base and the size in its block's header is a
\* multiple of G, in part_002 and in src/MemoryPool.h.
C11_Granular ==
    /\ (btPc = "run" /\ bt.fault = "") =>
           \A r \in BtLiveSet : Granular(bt, r, block_header_size)
    /\ (mpPc = "run" /\ mp.fault = "") =>
           \A r \in MpLiveSet : Granular(mp, r, unfree_block_header_size)

\* C13: allocate(0) returns null and leaves the pool as it was (memory,
\* chunks, cursor or free-list head), in part_002 and in src/MemoryPool.h.
C13_ZeroSizeNoOp ==
    [][/\ (btOps' = btOps + 1 /\ btLast'.op = "allocate" /\ btLast'.n = 0)
              => (btLast'.res = NULL /\ bt' = bt /\ btLive' = btLive)
       /\ (mpOps' = mpOps + 1 /\ mpLast'.op = "allocate" /\ mpLast'.n = 0)
              => (mpLast'.res = NULL /\ mp' = mp /\ mpLive' = mpLive)]_vars

\* C13 witness: allocate(0) was the last call on either pool, and each
\* pool holds a chunk
C13_Witness ==
    /\ btLast.op = "allocate" /\ btLast.n = 0 /\ bt.chunk_head_ # NULL
    /\ mpLast.op = "allocate" /\ mpLast.n = 0 /\ mp.chunk_head_ # NULL

\* C14: in part_002 a block that is not the first of its chunk has
\* is_prev_free set exactly when the block before it is free.
C14_PrevFreeExact ==
    (btPc = "run" /\ bt.fault = "") =>
        \A pair \in Neighbours("bt", bt) :
            is_prev_free(bt, pair[2]) <=> is_free(bt, pair[1])

\* C16: the blocks of every chunk tile it: stepping by address + size from
\* the first block ends with the one is_last block, which ends where the
\* chunk's block area ends, in part_002 and in src/MemoryPool.h.
C16_BlocksTile ==
    /\ (btPc = "run" /\ bt.fault = "") =>
           \A i \in 1 .. Len(bt.heap) : Tiling("bt", bt, bt.heap[i]).ok
    /\ (mpPc = "run" /\ mp.fault = "") =>
           \A i \in 1 .. Len(mp.heap) : Tiling("mp", mp, mp.heap[i]).ok

\* C20: in part_002 no two blocks next to each other are both free.
C20_NoAdjacentFree ==
    (btPc = "run" /\ bt.fault = "") =>
        \A pair \in Neighbours("bt", bt) : ~(is_free(bt, pair[1]) /\ is_free(bt, pair[2]))

(***************************************************************************)
(*                 Claims on Allocator<T>, continued                       *)
(***************************************************************************)
\* C15: the flag word of the slot allocate() returns holds the slot's
\* payload address when the call returns, and so does the flag word of
\* every slot that is held.
C15_MaskOfLive ==
    (alPc = "run" /\ al.fault = "" /\ alOps > 0) =>
        /\ alLast.op = "allocate" => AllocatorRd(al, FlagOf(alLast.res)) = alLast.res
        /\ \A p \in AlLiveSet : AllocatorRd(al, FlagOf(p)) = p

(***************************************************************************)
(*         Claims on the MemoryPool of src/MemoryPool.h, continued         *)
(***************************************************************************)
\* the free list ends in null
RECURSIVE MpListEnds(_, _, _)
MpListEnds(s, curr, fuel) ==
    IF curr = NULL THEN TRUE
    ELSE IF curr < 0 \/ fuel = 0 THEN FALSE
    ELSE MpListEnds(s, Rd(s, NextOf(curr)), fuel - 1)

MpOnList(s) == MpListed(s, s.free_block_head_, WalkFuel)

\* C17: the free list of src/MemoryPool.h is well-formed (it ends in null,
\* head.prev is null, x.next.prev is x) and holds exactly the blocks whose
\* is_free bit is set.
C17_FreeListExact ==
    (mpPc = "run" /\ mp.fault = "") =>
        /\ MpListEnds(mp, mp.free_block_head_, WalkFuel)
        /\ mp.free_block_head_ # NULL => Rd(mp, PrevOf(mp.free_block_head_)) = NULL
        /\ \A x \in MpOnList(mp) :
               Rd(mp, NextOf(x)) # NULL => Rd(mp, PrevOf(Rd(mp, NextOf(x)))) = x
        /\ MpOnList(mp) = {b \in AllBlocks("mp", mp) : mp_is_free(Rd(mp, b)) = 1}

\* C18: deallocate(p) that finds is_prev_free set leaves one free block at
\* the header of the block before, of at least the two sizes together,
\* with that block's is_prev_free, and on the free list.
C18_MergesIntoPrev ==
    (mpLast.op = "deallocate" /\ mpLast.seen.prevFree /\ mp.fault = "") =>
        /\ Rd(mp, mpLast.seen.prev) >= 0
        /\ mp_is_free(Rd(mp, mpLast.seen.prev)) = 1
        /\ mp_size(Rd(mp, mpLast.seen.prev))
               >= mpLast.seen.size + mp_size(mpLast.seen.prevWord)
        /\ mp_is_prev_free(Rd(mp, mpLast.seen.prev)) = mp_is_prev_free(mpLast.seen.prevWord)
        /\ mpLast.seen.prev \in MpOnList(mp)
        /\ mpLast.seen.hdr \notin MpOnList(mp)

\* C19: the header deallocate and reallocate derive from p lies
\* unfree_block_header_size bytes below p: Buffer of it is p.
C19_HeaderInverse ==
    mpLast.op \in {"deallocate", "reallocate"} => Buffer(mpLast.seen.hdr) = mpLast.p


(***************************************************************************)
(*              Claims on the part_002 MemoryPool, third part              *)
(***************************************************************************)
\* the smallest block that holds a header and a footer
min_block_size == block_tag_size

\* C21: the block of the pointer allocate or reallocate has returned
\* records a size of at least min_block_size, so the footer of the block
\* lies behind its header.
C21_MinBlockSize ==
    (btPc = "run" /\ bt.fault = "" /\ btLast.op \in {"allocate", "reallocate"}
         /\ btLast.res # NULL) =>
        /\ block_size(bt, btLast.res - block_header_size) >= min_block_size
        /\ footer(bt, btLast.res - block_header_size) >= btLast.res

\* C22: the mask word of the header of every pointer the caller holds is
\* the pointer itself.
C22_MaskOfLive ==
    (btPc = "run" /\ bt.fault = "") =>
        \A r \in BagToSet(btLive) : Rd(bt, r.p - WordSize) = r.p

(***************************************************************************)
(*        Claims on splitting, in src/MemoryPool.h and in part_002         *)
(***************************************************************************)
\* what a free block C of old_size bytes, with the word old_meta in its
\* header, has to look like in s after alloc_size bytes were requested
\* from it and min_free is the smallest free block
MpServed(s, c, old_meta, alloc_size, min_free) ==
    IF mp_size(old_meta) - alloc_size >= min_free
    THEN /\ mp_size(Rd(s, c)) = alloc_size
         /\ mp_is_free(Rd(s, c)) = 0
         /\ mp_is_last(Rd(s, c)) = 0
         /\ Rd(s, c + alloc_size) >= 0
         /\ mp_size(Rd(s, c + alloc_size)) = mp_size(old_meta) - alloc_size
         /\ mp_is_free(Rd(s, c + alloc_size)) = 1
         /\ mp_is_last(Rd(s, c + alloc_size)) = mp_is_last(old_meta)
    ELSE /\ mp_size(Rd(s, c)) = mp_size(old_meta)
         /\ mp_is_free(Rd(s, c)) = 0

BtServed(s, c, old_meta, allocSize) ==
    IF (old_meta \div 8) - allocSize >= block_tag_size
    THEN /\ block_size(s, c) = allocSize
         /\ ~is_free(s, c)
         /\ ~is_last(s, c)
         /\ Rd(s, c + allocSize) >= 0
         /\ block_size(s, c + allocSize) = (old_meta \div 8) - allocSize
         /\ is_free(s, c + allocSize)
         /\ is_last(s, c + allocSize) = (LastBit(old_meta) # 0)
    ELSE /\ block_size(s, c) = old_meta \div 8
         /\ ~is_free(s, c)

\* C23: an allocate that is served from a free block C splits C exactly
\* when the remainder is at least the smallest free block, leaving C with
\* alloc_size bytes, allocated and not last, and the remainder free behind
\* it with C's former is_last; otherwise it leaves the size of C alone.
C23_SplitIffRoom ==
    [][/\ (/\ mpOps' = mpOps + 1 /\ mpLast'.op = "allocate" /\ mpLast'.res # NULL
           /\ ~mpLast'.grew /\ mp'.fault = "")
          => IF mp_is_last(Rd(mp, mpLast'.res - unfree_block_header_size)) = 1
             THEN MpServed(mp', mpLast'.res - unfree_block_header_size,
                           Rd(mp, mpLast'.res - unfree_block_header_size),
                           Max(unfree_block_header_size + mpLast'.n, free_block_header_size),
                           free_block_header_size)
             ELSE MpServed(mp', mpLast'.res - unfree_block_header_size,
                           Rd(mp, mpLast'.res - unfree_block_header_size),
                           Max(unfree_block_header_size + mpLast'.n, free_block_tag_size),
                           free_block_tag_size)
       /\ (/\ btOps' = btOps + 1 /\ btLast'.op = "allocate" /\ btLast'.res # NULL
           /\ Len(bt'.heap) = Len(bt.heap) /\ bt'.fault = "")
          => BtServed(bt', btLast'.res - block_header_size,
                      Rd(bt, btLast'.res - block_header_size),
                      block_header_size + btLast'.n)]_vars

(***************************************************************************)
(*                 Claims on reallocate of part_002                        *)
(***************************************************************************)
\* the size the block of p has once a free next block is absorbed
SizeWithNext(s, b) ==
    IF ~is_last(s, b) /\ Rd(s, next_block(s, b)) >= 0 /\ is_free(s, next_block(s, b))
    THEN block_size(s, b) + block_size(s, next_block(s, b))
    ELSE block_size(s, b)

\* C24: reallocate(p, t) of a held p whose block, with a free next block
\* absorbed, has at least header_size + t bytes returns p and copies
\* nothing; the block stays allocated with t payload bytes or more, and a
\* remainder split off is free and flagged in the block behind it.
C24_InPlace ==
    [][(/\ btOps' = btOps + 1 /\ btLast'.op = "reallocate"
        /\ BagIn([p |-> btLast'.p, n |-> btLast'.old], btLive)
        /\ Rd(bt, btLast'.p - block_header_size) >= 0
        /\ SizeWithNext(bt, btLast'.p - block_header_size)
               >= block_header_size + btLast'.n)
       => /\ bt'.fault = ""
          /\ btLast'.res = btLast'.p
          /\ btLast'.path = "in_place"
          /\ ~is_free(bt', btLast'.p - block_header_size)
          /\ block_size(bt', btLast'.p - block_header_size)
                 >= block_header_size + btLast'.n
          /\ (~is_last(bt', btLast'.p - block_header_size)
                  /\ is_free(bt', next_block(bt', btLast'.p - block_header_size)))
             => \/ is_last(bt', next_block(bt', btLast'.p - block_header_size))
                \/ is_prev_free(bt', next_block(bt', next_block(bt', btLast'.p - block_header_size)))]_vars

(***************************************************************************)
(*                 Claims on the scan of allocate in part_002              *)
(***************************************************************************)
\* the free blocks of s that hold allocSize bytes
BtFitting(s, allocSize) ==
    {b \in AllBlocks("bt", s) : is_free(s, b) /\ block_size(s, b) >= allocSize}

SpecChunkSize(size) ==
    Max(default_size,
        bit_ceil(chunk_header_size + (block_header_size + size) + chunk_footer_size
                 + min_block_size))

\* chunk c holds one allocated block of alloc_size bytes and behind it one
\* free, last block that ends at the chunk footer
Carved(s, c, alloc_size) ==
    /\ Tiling("bt", s, c).ok
    /\ Len(Tiling("bt", s, c).blocks) = 2
    /\ block_size(s, first_block(c.base)) = alloc_size
    /\ ~is_free(s, first_block(c.base))
    /\ is_free(s, first_block(c.base) + alloc_size)
    /\ is_last(s, first_block(c.base) + alloc_size)
    /\ block_size(s, first_block(c.base) + alloc_size) >= min_block_size

\* C26: the chunk that allocate(size) acquires has SpecChunkSize(size)
\* bytes and is carved into the allocated block and one trailing free
\* block.
C26_ChunkSize ==
    [][(/\ btOps' = btOps + 1 /\ btLast'.op = "allocate" /\ bt'.fault = ""
        /\ Len(bt'.heap) = Len(bt.heap) + 1)
       => /\ bt'.heap[Len(bt'.heap)].size = SpecChunkSize(btLast'.n)
          /\ Carved(bt', bt'.heap[Len(bt'.heap)], block_header_size + btLast'.n)]_vars

(***************************************************************************)
(*        Claims on the sorted-list MemoryPool of part_001, continued      *)
(***************************************************************************)
\* the regions of two nodes share no byte
NodesApart(a, b) == a.buffer + a.size <= b.buffer \/ b.buffer + b.size <= a.buffer

\* C27: the nodes list[1 .. count] are in ascending order of size, count
\* is at most capacity, and no two nodes share a byte.
C27_SortedDisjoint ==
    (sl.fault = "") =>
        /\ sl.count <= sl.capacity
        /\ \A i \in 1 .. sl.count - 1 : sl.list[i].size <= sl.list[i + 1].size
        /\ \A i \in 1 .. sl.count : \A j \in 1 .. sl.count :
               i # j => NodesApart(sl.list[i], sl.list[j])

\* some free node covers the region [p, p + n)
SlCovered(p, n) ==
    \E i \in 1 .. sl.count :
        sl.list[i].buffer <= p /\ p + n <= sl.list[i].buffer + sl.list[i].size

\* C28: after deallocate(p, size) with 0 < size < chunk_size a free node
\* covers [p, p + size), also when the call found the node array full.
C28_FreedIsListed ==
    (sl.fault = "" /\ slLast.op = "deallocate" /\ slLast.n > 0
         /\ slLast.n < sl_chunk_size) =>
        SlCovered(slLast.p, slLast.n)

\* C29: in the first definition of Allocator<T>, a deallocate(p) whose p
\* was already passed to deallocate since the last allocate() is rejected
\* and leaves the head of the free list, every link word and the chunks as
\* they were.
C29_SecondDeallocateNoOp ==
    [][(/\ al.def = 1
        /\ alOps' = alOps + 1
        /\ alLast'.op = "deallocate"
        /\ alLast'.p \in alCaller.freed)
           => /\ ~alLast'.accepted
              /\ al' = al]_vars

\* C29 witness: the second slot of the chunk was held, the first
\* deallocate put it at the head of the free list and the caller has just
\* passed it to deallocate a second time
C29_Witness ==
    /\ al.def = 1
    /\ alPc = "run"
    /\ alOps = 2
    /\ alLast.op = "deallocate"
    /\ alLast.again
    /\ alLast.p = BlockAt(al.heap[1].base, 1)
    /\ al.free_block_head_ = alLast.p

\* the least k with k * n >= m
CeilDiv(m, n) == (m + n - 1) \div n

\* C30: a chunk is acquired only by an allocate() that finds the free list
\* empty, and the number of chunks is ceil(M / blocks_per_chunk), M being
\* the largest number of pointers the caller has held at one time.
C30_ChunksFollowPeak ==
    [][/\ (Len(al'.heap) > Len(al.heap))
              => (alLast'.op = "allocate" /\ al.free_block_head_ = NULL)
       /\ (alPc' = "run" /\ al'.fault = "")
              => Len(al'.heap) = CeilDiv(alCaller'.peak, blocks_per_chunk)]_vars

(***************************************************************************)
(*                 Claims on part_002, the cursor                          *)
(***************************************************************************)
\* C31: while the part_002 pool has a chunk, curr_block_ is the address of
\* the header of a block of the tiling of one of the chunks, after every
\* allocate, reallocate and deallocate.
C31_CursorOnBlock ==
    (btPc = "run" /\ bt.fault = "" /\ bt.chunk_head_ # NULL) =>
        bt.curr_block_ \in AllBlocks("bt", bt)
=============================================================================
